---------------------------- MODULE Spec2Model ----------------------------
(***************************************************************************)
(* A model of the DDL-to-DBML converter.                                   *)
(*                                                                         *)
(* Text is modelled as TLA+ strings and is inspected character by          *)
(* character (SubSeq(s, i, i)), so that the Python string methods and the  *)
(* regular expressions of the source are computed, not assumed.            *)
(*                                                                         *)
(* An optional value (Python None or a str) is a sequence of length 0 or 1:*)
(* <<>> is None and <<s>> is the string s.                                 *)
(***************************************************************************)
EXTENDS Integers, Sequences, FiniteSets, TLC

VARIABLES
    pc,            \* position of the run that is being modelled
    tables_data,   \* the table mapping (an ordered dict): a sequence of tables
    schema_name,   \* the schema label handed to the serializer (<<>> is None)
    dbml,          \* the DBML text that was last produced ("" before)
    tables_in,     \* the table mapping as it was handed to the serializer
    raw_default,   \* a raw default string handed to the default-literal policy
    column_line,   \* the column line serialized for raw_default ("" before)
    ddl_files,     \* the DDL files of the schema directory: [name, text, tail,
                   \* readable] each
    parsed,        \* the number of DDL files that were parsed
    passes,        \* the number of reconciliation passes over dbml
    dbml_before,   \* the DBML text that the last reconciliation pass was given
    ddl_parser,    \* the extractor that reads the files ("" when there is none)
    errors,        \* stats['errors']: the messages of the failures of the run
    file_content,  \* the text that parse_file last handed to parse_ddl_content
    schema_dir_exists  \* the directory of the DDL files is there at reconciliation

vars == <<pc, tables_data, schema_name, dbml, tables_in, raw_default, column_line,
          ddl_files, parsed, passes, dbml_before, ddl_parser, errors,
          file_content, schema_dir_exists>>

None == <<>>
Some(s) == <<s>>

-----------------------------------------------------------------------------
(* Python str methods                                                      *)

Lowers == "abcdefghijklmnopqrstuvwxyz"
Uppers == "ABCDEFGHIJKLMNOPQRSTUVWXYZ"
DigitChars == "0123456789"
Whitespace == " \t\n\r"
\* the backquote character, and a name between backquotes
BT == Head("`'")
Q(name) == BT \o name \o BT

Ch(s, i) == SubSeq(s, i, i)

\* c in chars, for a one-character string c
InChars(c, chars) == \E i \in 1..Len(chars) : Ch(chars, i) = c

IndexIn(c, chars) == CHOOSE i \in 1..Len(chars) : Ch(chars, i) = c

upper_ch(c) == IF InChars(c, Lowers) THEN Ch(Uppers, IndexIn(c, Lowers)) ELSE c
lower_ch(c) == IF InChars(c, Uppers) THEN Ch(Lowers, IndexIn(c, Uppers)) ELSE c

\* str.upper() and str.lower(), half by half
RECURSIVE upper(_)
upper(s) ==
    IF Len(s) <= 1 THEN upper_ch(s)
    ELSE upper(SubSeq(s, 1, Len(s) \div 2)) \o upper(SubSeq(s, Len(s) \div 2 + 1, Len(s)))

RECURSIVE lower(_)
lower(s) ==
    IF Len(s) <= 1 THEN lower_ch(s)
    ELSE lower(SubSeq(s, 1, Len(s) \div 2)) \o lower(SubSeq(s, Len(s) \div 2 + 1, Len(s)))

IsDigitCh(c) == InChars(c, DigitChars)
IsAlphaCh(c) == InChars(c, Lowers) \/ InChars(c, Uppers)
IsSpaceCh(c) == InChars(c, Whitespace)
\* \w of the re module, on the characters of the model
IsWordCh(c) == IsAlphaCh(c) \/ IsDigitCh(c) \/ c = "_"

\* str.isdigit(): non-empty and all digits
isdigit(s) == s # "" /\ \A i \in 1..Len(s) : IsDigitCh(Ch(s, i))

\* sub in s
Contains(s, sub) ==
    \E i \in 1..(Len(s) - Len(sub) + 1) : SubSeq(s, i, i + Len(sub) - 1) = sub

startswith(s, prefix) == Len(prefix) <= Len(s) /\ SubSeq(s, 1, Len(prefix)) = prefix
endswith(s, suffix) ==
    Len(suffix) <= Len(s) /\ SubSeq(s, Len(s) - Len(suffix) + 1, Len(s)) = suffix

\* the least i in lo..hi with P(i), 0 when there is none, computed half by half
RECURSIVE First(_, _, _)
First(P(_), lo, hi) ==
    IF lo > hi THEN 0
    ELSE IF lo = hi THEN (IF P(lo) THEN lo ELSE 0)
    ELSE LET mid == (lo + hi) \div 2
             left == First(P, lo, mid)
         IN  IF left # 0 THEN left ELSE First(P, mid + 1, hi)

\* s[i - 1:].startswith(lit), for any index i
At(s, i, lit) == i >= 1 /\ i + Len(lit) - 1 <= Len(s) /\ SubSeq(s, i, i + Len(lit) - 1) = lit

\* s[i - 1:].upper().startswith(word), for a word in capitals
AtWord(s, i, word) ==
    i >= 1 /\ i + Len(word) - 1 <= Len(s) /\ upper(SubSeq(s, i, i + Len(word) - 1)) = word

\* the first index >= from at which sub starts in s, 0 when there is none
\* (str.find, with 1-based indices and 0 for -1)
find_from(s, sub, from) ==
    First(LAMBDA i : At(s, i, sub), from, Len(s) - Len(sub) + 1)

find(s, sub) == find_from(s, sub, 1)

\* str.replace(old, new) for a non-empty old
RECURSIVE replace(_, _, _)
replace(s, old, new) ==
    LET i == find(s, old)
    IN  IF i = 0 THEN s
        ELSE SubSeq(s, 1, i - 1) \o new \o replace(SubSeq(s, i + Len(old), Len(s)), old, new)

\* str.split(sep) for a non-empty sep
RECURSIVE split(_, _)
split(s, sep) ==
    LET i == find(s, sep)
    IN  IF i = 0 THEN <<s>>
        ELSE <<SubSeq(s, 1, i - 1)>> \o split(SubSeq(s, i + Len(sep), Len(s)), sep)

\* sep.join(parts)
RECURSIVE join(_, _)
join(sep, parts) ==
    IF parts = <<>> THEN ""
    ELSE IF Len(parts) = 1 THEN parts[1]
    ELSE parts[1] \o sep \o join(sep, Tail(parts))

\* str.strip(chars)
RECURSIVE lstrip_chars(_, _)
lstrip_chars(s, chars) ==
    IF s # "" /\ InChars(Head(s), chars) THEN lstrip_chars(Tail(s), chars) ELSE s

RECURSIVE rstrip_chars(_, _)
rstrip_chars(s, chars) ==
    IF s # "" /\ InChars(Ch(s, Len(s)), chars)
    THEN rstrip_chars(SubSeq(s, 1, Len(s) - 1), chars) ELSE s

strip_chars(s, chars) == rstrip_chars(lstrip_chars(s, chars), chars)
strip(s) == strip_chars(s, Whitespace)
rstrip(s) == rstrip_chars(s, Whitespace)

\* int(s) for a string of digits
RECURSIVE to_int(_)
to_int(s) ==
    IF s = "" THEN 0
    ELSE 10 * to_int(SubSeq(s, 1, Len(s) - 1)) + (IndexIn(Ch(s, Len(s)), DigitChars) - 1)

\* the first index >= i whose character is not in the class (Len(s) + 1 at the end)
RECURSIVE skip_digits(_, _)
skip_digits(s, i) ==
    IF i <= Len(s) /\ IsDigitCh(Ch(s, i)) THEN skip_digits(s, i + 1) ELSE i

RECURSIVE skip_space(_, _)
skip_space(s, i) ==
    IF i <= Len(s) /\ IsSpaceCh(Ch(s, i)) THEN skip_space(s, i + 1) ELSE i

RECURSIVE skip_word(_, _)
skip_word(s, i) ==
    IF i <= Len(s) /\ IsWordCh(Ch(s, i)) THEN skip_word(s, i + 1) ELSE i

RECURSIVE skip_alpha(_, _)
skip_alpha(s, i) ==
    IF i <= Len(s) /\ IsAlphaCh(Ch(s, i)) THEN skip_alpha(s, i + 1) ELSE i

\* the $ of the re module at index i: the end, or just before a final newline
AtDollar(s, i) == i = Len(s) + 1 \/ (i = Len(s) /\ Ch(s, i) = "\n")

Min(a, b) == IF a <= b THEN a ELSE b

\* a local variable: F applied to the value v, which is computed at most once
Let(v, F(_)) == F(v)

\* a loop  for i in range(lo, hi + 1): state = Step(s, i, state)  computed half
\* by half, the left half first
RECURSIVE Scan(_, _, _, _, _)
Scan(Step(_, _, _), s, lo, hi, state) ==
    IF lo > hi THEN state
    ELSE IF lo = hi THEN Step(s, lo, state)
    ELSE LET mid == (lo + hi) \div 2
             left == Scan(Step, s, lo, mid, state)
         IN  IF left = state THEN Scan(Step, s, mid + 1, hi, state)
             ELSE Scan(Step, s, mid + 1, hi, left)

\* number of indices of seq that hold x
Count(seq, x) == Cardinality({i \in 1..Len(seq) : seq[i] = x})

-----------------------------------------------------------------------------
(* dbml_converter.py: DBMLConverter, the DBML serializer                   *)

\* dict.get(key, default) on a function with a finite domain
Get(dict, key, default) == IF key \in DOMAIN dict THEN dict[key] ELSE default

type_mapping ==
    [t \in {"BIGINT", "INT", "INTEGER", "SMALLINT", "TINYINT", "DECIMAL", "NUMERIC",
            "FLOAT", "DOUBLE", "VARCHAR", "CHAR", "TEXT", "LONGTEXT", "MEDIUMTEXT",
            "TINYTEXT", "DATE", "DATETIME", "TIMESTAMP", "TIME", "YEAR", "BLOB",
            "LONGBLOB", "MEDIUMBLOB", "TINYBLOB", "BINARY", "VARBINARY", "ENUM",
            "SET", "JSON", "BOOLEAN", "BOOL"} |->
        CASE t = "INTEGER" -> "int"
          [] t = "NUMERIC" -> "decimal"
          [] t = "BOOL" -> "boolean"
          [] OTHER -> lower(t)]

\* one character of _escape_string_value: the chain of replace() calls, then
\* \xHH for what is left outside the printable ASCII range
escape_ch(c) ==
    CASE c = "\\" -> "\\\\"
      [] c = "\n" -> "\\n"
      [] c = "\r" -> "\\r"
      [] c = "\t" -> "\\t"
      [] c = "'"  -> "\\'"
      [] c = "\"" -> "\\\""
      [] OTHER -> c

RECURSIVE escape_string_value(_)
escape_string_value(value) ==
    IF value = "" THEN "" ELSE escape_ch(Head(value)) \o escape_string_value(Tail(value))

\* re.match(r'^\d{n}', s) from index i: the index after n digits, 0 on failure
Digits_n(s, i, n) ==
    IF i + n - 1 <= Len(s) /\ \A k \in i..(i + n - 1) : IsDigitCh(Ch(s, k))
    THEN i + n ELSE 0

\* a literal character c at index i: the index after it, 0 on failure
Lit(s, i, c) == IF i # 0 /\ i <= Len(s) /\ Ch(s, i) = c THEN i + 1 ELSE 0

Then_digits(s, i, n) == IF i = 0 THEN 0 ELSE Digits_n(s, i, n)

\* ^\d{4}-\d{2}-\d{2}  (the index after the match, 0 on failure)
match_ymd(s, i) ==
    Then_digits(s, Lit(s, Then_digits(s, Lit(s, Digits_n(s, i, 4), "-"), 2), "-"), 2)

\* \d{2}:\d{2}:\d{2}
match_hms(s, i) ==
    Then_digits(s, Lit(s, Then_digits(s, Lit(s, Then_digits(s, i, 2), ":"), 2), ":"), 2)

is_date_format(value) ==
    LET d == match_ymd(value, 1)
        dt == match_hms(value, Lit(value, d, " "))
        t == match_hms(value, 1)
    IN  \/ (d # 0 /\ AtDollar(value, d))
        \/ (dt # 0 /\ AtDollar(value, dt))
        \/ (t # 0 /\ AtDollar(value, t))

\* \d{1,3} from index i, greedy: the index after it, 0 on failure
Digits_1_3(s, i) ==
    IF i = 0 \/ i > Len(s) \/ ~IsDigitCh(Ch(s, i)) THEN 0
    ELSE LET e == skip_digits(s, i) IN IF e - i > 3 THEN i + 3 ELSE e

\* (\.\d{1,3}) from index i
Dot_group(s, i) == Digits_1_3(s, Lit(s, i, "."))

\* ^\d{1,3}(\.\d{1,3}){lo,hi}$ : a group of digits is followed by a dot or the
\* end, so the greedy reading of each group is the only one that can match
RECURSIVE dotted_groups(_, _, _, _)
dotted_groups(s, i, lo, hi) ==
    IF i = 0 THEN FALSE
    ELSE \/ (lo <= 0 /\ AtDollar(s, i))
         \/ (hi > 0 /\ dotted_groups(s, Dot_group(s, i), lo - 1, hi - 1))

octets_in_range(value) ==
    LET parts == split(value, ".")
    IN  \A k \in 1..Len(parts) :
            LET n == to_int(strip(parts[k])) IN 0 <= n /\ n <= 255

is_ip_address(value) ==
    LET first == Digits_1_3(value, 1)
    IN  IF dotted_groups(value, first, 3, 3) THEN octets_in_range(value)
        ELSE IF dotted_groups(value, first, 1, 3) THEN octets_in_range(value)
        ELSE FALSE

\* re.findall(r"'([^']*)'", enum_str)
RECURSIVE findall_quoted(_)
findall_quoted(s) ==
    LET i == find(s, "'")
        j == IF i = 0 THEN 0 ELSE find_from(s, "'", i + 1)
    IN  IF i = 0 \/ j = 0 THEN <<>>
        ELSE <<SubSeq(s, i + 1, j - 1)>> \o findall_quoted(SubSeq(s, j + 1, Len(s)))

escape_enum_values(enum_str) ==
    LET values == findall_quoted(enum_str)
    IN  IF values = <<>> THEN enum_str
        ELSE join(",", [k \in 1..Len(values) |->
                            "'" \o escape_string_value(values[k]) \o "'"])

EscapedChars == "-./\\()[]"

escape_table_name(name) ==
    IF Contains(name, " ") \/ \E i \in 1..Len(EscapedChars) : Contains(name, Ch(EscapedChars, i))
    THEN "\"" \o name \o "\""
    ELSE name

\* default_literal with the numeric test moved before the date and IP tests
default_literal_number_first(default_value) ==
    IF upper(default_value) = "CURRENT_TIMESTAMP" THEN Q("now()")
    ELSE IF upper(default_value) = "NULL" THEN "null"
    ELSE IF \/ isdigit(default_value)
            \/ isdigit(replace(default_value, ".", "")) /\ Contains(default_value, ".")
         THEN default_value
    ELSE IF is_date_format(default_value) THEN "'" \o default_value \o "'"
    ELSE IF is_ip_address(default_value) THEN "'" \o default_value \o "'"
    ELSE IF lower(default_value) \in {"true", "false"} THEN default_value
    ELSE "'" \o escape_string_value(default_value) \o "'"

\* lines 162-184: the default value as it is written after 'default: '
default_literal(default_value) ==
    IF upper(default_value) = "CURRENT_TIMESTAMP" THEN Q("now()")
    ELSE IF upper(default_value) = "NULL" THEN "null"
    ELSE IF is_date_format(default_value) THEN "'" \o default_value \o "'"
    ELSE IF is_ip_address(default_value) THEN "'" \o default_value \o "'"
    ELSE IF \/ isdigit(default_value)
            \/ /\ isdigit(replace(default_value, ".", ""))
               /\ Contains(default_value, ".")
               /\ ~is_date_format(default_value)
               /\ ~is_ip_address(default_value)
         THEN default_value
    ELSE IF lower(default_value) \in {"true", "false"} THEN default_value
    ELSE "'" \o escape_string_value(default_value) \o "'"

\* lines 130-145: the DBML type with its size (column.get('size') is None on a
\* record without the key)
column_dbml_type(column) ==
    LET mysql_type == upper(column.type)
        dbml_type == Get(type_mapping, mysql_type, lower(mysql_type))
        size == Get(column, "size", None)
    IN  IF size # None /\ size[1] # ""
        THEN LET size_info == IF mysql_type = "ENUM"
                              THEN escape_enum_values(size[1])
                              ELSE size[1]
             IN  dbml_type \o "(" \o size_info \o ")"
        ELSE dbml_type

\* column_attributes without the primary-key test of line 159
column_attributes_unique_on_pk(column) ==
    (IF Get(column, "primary_key", FALSE) THEN <<"pk">> ELSE <<>>)
    \o (IF Get(column, "auto_increment", FALSE) THEN <<"increment">> ELSE <<>>)
    \o (IF ~Get(column, "nullable", TRUE) THEN <<"not null">> ELSE <<>>)
    \o (IF Get(column, "unique", FALSE) THEN <<"unique">> ELSE <<>>)
    \o (IF Get(column, "default", None) # None
        THEN <<"default: " \o default_literal(column.default[1])>> ELSE <<>>)

\* lines 147-184: the list attributes; every flag is read with column.get, so
\* that a key the record lacks reads as unset (nullable as True)
column_attributes(column) ==
    (IF Get(column, "primary_key", FALSE) THEN <<"pk">> ELSE <<>>)
    \o (IF Get(column, "auto_increment", FALSE) THEN <<"increment">> ELSE <<>>)
    \o (IF ~Get(column, "nullable", TRUE) THEN <<"not null">> ELSE <<>>)
    \o (IF Get(column, "unique", FALSE) /\ ~Get(column, "primary_key", FALSE)
        THEN <<"unique">> ELSE <<>>)
    \o (IF Get(column, "default", None) # None
        THEN <<"default: " \o default_literal(column.default[1])>> ELSE <<>>)

convert_column_to_dbml(column) ==
    LET attributes == column_attributes(column)
        column_def == escape_table_name(column.name) \o " " \o column_dbml_type(column)
    IN  IF attributes # <<>>
        THEN column_def \o " [" \o join(", ", attributes) \o "]"
        ELSE column_def

\* primary_key_columns without the lower() of line 85
primary_key_columns_exact_case(table_info) ==
    UNION {{table_info.constraints[k].columns[i] :
                i \in 1..Len(table_info.constraints[k].columns)} :
           k \in {c \in 1..Len(table_info.constraints) :
                    table_info.constraints[c].type = "primary_key"}}

\* lines 80-85: the lower-cased names listed by the table's primary_key constraints
primary_key_columns(table_info) ==
    UNION {{lower(table_info.constraints[k].columns[i]) :
                i \in 1..Len(table_info.constraints[k].columns)} :
           k \in {c \in 1..Len(table_info.constraints) :
                    table_info.constraints[c].type = "primary_key"}}

\* the flag set on every column of a table that has a primary_key constraint
apply_primary_key_to_all(table_info) ==
    [i \in 1..Len(table_info.columns) |->
        IF primary_key_columns(table_info) # {}
        THEN IF "primary_key" \in DOMAIN table_info.columns[i]
             THEN [table_info.columns[i] EXCEPT !.primary_key = TRUE]
             ELSE table_info.columns[i] @@ ("primary_key" :> TRUE)
        ELSE table_info.columns[i]]

\* lines 88-91: the columns after the primary-key flag was set on them
apply_primary_key(table_info) ==
    [i \in 1..Len(table_info.columns) |->
        IF lower(table_info.columns[i].name) \in primary_key_columns(table_info)
        THEN IF "primary_key" \in DOMAIN table_info.columns[i]
             THEN [table_info.columns[i] EXCEPT !.primary_key = TRUE]
             ELSE table_info.columns[i] @@ ("primary_key" :> TRUE)
        ELSE table_info.columns[i]]

\* the last index of the table's columns whose lower-cased name is key, 0 if none
\* (the dict comprehension of line 362 keeps the last column of equal key)
last_column_named(table_info, key) ==
    LET hits == {i \in 1..Len(table_info.columns) : lower(table_info.columns[i].name) = key}
    IN  IF hits = {} THEN 0 ELSE CHOOSE i \in hits : \A j \in hits : j <= i

\* get_actual_column_names without the lookup of line 366
get_actual_column_names_verbatim(table_info, column_names) == column_names

get_actual_column_names(table_info, column_names) ==
    [k \in 1..Len(column_names) |->
        LET i == last_column_named(table_info, lower(column_names[k]))
        IN  IF i = 0 THEN column_names[k] ELSE table_info.columns[i].name]

\* lines 100-113: the entry of one constraint in the Indexes block (<<>> if none)
index_definition(table_info, constraint) ==
    IF constraint.type = "primary_key" THEN <<>>
    ELSE IF constraint.type = "unique"
    THEN <<"    (" \o join(", ", get_actual_column_names(table_info, constraint.columns))
            \o ") [unique]">>
    ELSE IF constraint.type = "index"
    THEN <<"    (" \o join(", ", get_actual_column_names(table_info, constraint.columns))
            \o ")">>
    ELSE <<>>

RECURSIVE index_definitions(_, _)
index_definitions(table_info, k) ==
    IF k > Len(table_info.constraints) THEN <<>>
    ELSE index_definition(table_info, table_info.constraints[k])
         \o index_definitions(table_info, k + 1)

\* the list lines of _convert_table_to_dbml
table_lines(table_name, table_info) ==
    LET columns == apply_primary_key(table_info)
        defs == index_definitions(table_info, 1)
    IN  <<"Table " \o escape_table_name(table_name) \o " {">>
        \o [i \in 1..Len(columns) |-> "  " \o convert_column_to_dbml(columns[i])]
        \o (IF defs # <<>> THEN <<"", "  Indexes {">> \o defs \o <<"  }">> ELSE <<>>)
        \o <<"}">>

convert_table_to_dbml(table_name, table_info) == join("\n", table_lines(table_name, table_info))

\* find_table_in_data_with_name without the lower() of line 381
find_table_in_data_with_name_exact(data, table_name) ==
    LET hits == {t \in 1..Len(data) : data[t].name = table_name}
    IN  IF hits = {} THEN 0 ELSE CHOOSE t \in hits : \A u \in hits : t <= u

\* lines 378-383: the index of the first table whose name equals table_name
\* case-insensitively, 0 when there is none (None, None)
find_table_in_data_with_name(data, table_name) ==
    LET hits == {t \in 1..Len(data) : lower(data[t].name) = lower(table_name)}
    IN  IF hits = {} THEN 0 ELSE CHOOSE t \in hits : \A u \in hits : t <= u

\* constraint_ref_lines writing a composite foreign key as one composite relation
constraint_ref_lines_composite(data, t, constraint) ==
    IF constraint.type # "foreign_key" \/ constraint.columns = <<>> THEN <<>>
    ELSE <<"Ref: " \o data[t].name \o ".(" \o join(", ", constraint.columns) \o ") > "
            \o constraint.ref_table \o ".(" \o join(", ", constraint.ref_columns) \o ")">>

\* lines 327-352: the Ref lines one constraint asks for, before deduplication
constraint_ref_lines(data, t, constraint) ==
    IF constraint.type # "foreign_key" THEN <<>>
    ELSE LET source_cols == get_actual_column_names(data[t], constraint.columns)
             target == find_table_in_data_with_name(data, constraint.ref_table)
             target_cols == IF target # 0
                            THEN get_actual_column_names(data[target], constraint.ref_columns)
                            ELSE constraint.ref_columns
             target_table_name == IF target # 0 /\ data[target].name # ""
                                  THEN data[target].name ELSE constraint.ref_table
         IN  IF Len(source_cols) = 1 /\ Len(target_cols) = 1
             THEN <<"Ref: " \o data[t].name \o "." \o source_cols[1] \o " > "
                     \o target_table_name \o "." \o target_cols[1]>>
             ELSE IF Len(source_cols) = Len(target_cols) /\ Len(source_cols) > 0
             THEN [i \in 1..Len(source_cols) |->
                     "Ref: " \o data[t].name \o "." \o source_cols[i] \o " > "
                     \o target_table_name \o "." \o target_cols[i]]
             ELSE <<>>

RECURSIVE table_ref_lines(_, _, _)
table_ref_lines(data, t, k) ==
    IF k > Len(data[t].constraints) THEN <<>>
    ELSE constraint_ref_lines(data, t, data[t].constraints[k]) \o table_ref_lines(data, t, k + 1)

RECURSIVE all_ref_lines(_, _)
all_ref_lines(data, t) ==
    IF t > Len(data) THEN <<>>
    ELSE table_ref_lines(data, t, 1) \o all_ref_lines(data, t + 1)

\* dedup_references without the test of lines 341 and 350
dedup_references_keep_all(candidates, references) == references \o candidates

\* lines 341-343 and 350-352: a line is appended unless it was seen before
RECURSIVE dedup_references(_, _)
dedup_references(candidates, references) ==
    IF candidates = <<>> THEN references
    ELSE dedup_references(Tail(candidates),
            IF \E i \in 1..Len(references) : references[i] = Head(candidates)
            THEN references ELSE Append(references, Head(candidates)))

extract_references(data) == dedup_references(all_ref_lines(data, 1), <<>>)

RECURSIVE table_blocks(_, _)
table_blocks(data, t) ==
    IF t > Len(data) THEN <<>>
    ELSE <<convert_table_to_dbml(data[t].name, data[t]), "">> \o table_blocks(data, t + 1)

\* the list dbml_content of convert_tables_to_dbml
dbml_content(data, schema) ==
    LET references == extract_references(data)
    IN  (IF schema # None /\ schema[1] # ""
         THEN <<"Project " \o schema[1] \o " {", "  database_type: 'MySQL'", "}\n">>
         ELSE <<>>)
        \o table_blocks(data, 1)
        \o (IF references # <<>> THEN <<"// Relationships">> \o references ELSE <<>>)

convert_tables_to_dbml(data, schema) == join("\n", dbml_content(data, schema))

\* the table mapping after convert_tables_to_dbml (line 91 writes into it)
tables_after_convert(data) ==
    [t \in 1..Len(data) |-> [data[t] EXCEPT !.columns = apply_primary_key(data[t])]]

-----------------------------------------------------------------------------
(* The schema model: the dicts built by the extractors                     *)

Column(name, type, size, nullable, auto_increment, primary_key, unique, default) ==
    [name |-> name, type |-> type, size |-> size, nullable |-> nullable,
     auto_increment |-> auto_increment, primary_key |-> primary_key,
     unique |-> unique, default |-> default]

\* a constraint dict; ref_table and ref_columns are only read on a foreign_key
Constraint(type, columns) ==
    [type |-> type, columns |-> columns, ref_table |-> "", ref_columns |-> <<>>]

ForeignKey(columns, ref_table, ref_columns) ==
    [type |-> "foreign_key", columns |-> columns, ref_table |-> ref_table,
     ref_columns |-> ref_columns]

Table(name, columns, constraints) ==
    [name |-> name, columns |-> columns, constraints |-> constraints]

PlainColumn(name, type) == Column(name, type, None, TRUE, FALSE, FALSE, FALSE, None)

\* the sequences over S of length lo..hi
SeqsOf(S, lo, hi) == UNION {[1..n -> S] : n \in lo..hi}

-----------------------------------------------------------------------------
(* sqlparse, as ddl_parser.py uses it: the leaf tokens of the statements   *)
(* of a text, on the token classes that occur in the DDL texts of the model*)

Token(ttype, value) == [ttype |-> ttype, value |-> value]

\* words that the lexer of sqlparse gives the type Keyword
Keywords ==
    {"TABLE", "PRIMARY", "KEY", "UNIQUE", "DEFAULT", "NULL", "NOT", "FOREIGN",
     "REFERENCES", "CONSTRAINT", "INDEX", "IF", "EXISTS", "ON", "CASCADE", "ENGINE",
     "PROCEDURE", "FUNCTION", "VIEW", "TRIGGER", "AS", "FROM", "FOR", "EACH", "ROW",
     "AFTER", "RETURNS", "EVERY"}

\* the index after the quote that closes a literal, scanning from i, 0 when the
\* literal is not closed; a doubled quote and a backslash escape stay inside
RECURSIVE closing_quote(_, _, _)
closing_quote(s, i, q) ==
    IF i > Len(s) THEN 0
    ELSE IF Ch(s, i) = q
         THEN LET doubled == IF i + 1 <= Len(s) /\ Ch(s, i + 1) = q
                             THEN closing_quote(s, i + 2, q) ELSE 0
              IN  IF doubled # 0 THEN doubled ELSE i + 1
    ELSE IF q # BT /\ Ch(s, i) = "\\" /\ i + 1 <= Len(s) /\ Ch(s, i + 1) \in {"\\", q}
         THEN LET escaped == closing_quote(s, i + 2, q)
              IN  IF escaped # 0 THEN escaped ELSE closing_quote(s, i + 1, q)
    ELSE closing_quote(s, i + 1, q)

\* the index after a number that starts at i, 0 when none starts there
number_end(s, i) ==
    LET d == IF Ch(s, i) = "-" THEN i + 1 ELSE i
        e == skip_digits(s, d)
        f == IF e > d /\ e <= Len(s) /\ Ch(s, e) = "." THEN skip_digits(s, e + 1) ELSE e
    IN  IF e = d \/ (f <= Len(s) /\ (IsAlphaCh(Ch(s, f)) \/ Ch(s, f) = "_")) THEN 0 ELSE f

\* the index after NOT NULL, written with any white space, when it starts at i
not_null_end(s, i) ==
    LET e == skip_word(s, i)
        w == skip_space(s, e)
        n == skip_word(s, w)
    IN  IF upper(SubSeq(s, i, e - 1)) = "NOT" /\ w > e /\ upper(SubSeq(s, w, n - 1)) = "NULL"
        THEN n ELSE 0

word_ttype(word) ==
    IF upper(word) = "CREATE" THEN "Keyword.DDL"
    ELSE IF upper(word) \in {"SELECT", "INSERT", "DELETE"} THEN "Keyword.DML"
    ELSE IF upper(word) \in Keywords THEN "Keyword"
    ELSE "Name"

\* the token that starts at index i of s, and the index after it
token_at(s, i) ==
    Let(Ch(s, i), LAMBDA c :
        IF IsSpaceCh(c) THEN <<Token("Whitespace", c), i + 1>>
        ELSE IF c = BT \/ c = "'" \/ c = "\""
        THEN Let(closing_quote(s, i + 1, c), LAMBDA e :
                 IF e = 0 THEN <<Token("Error", c), i + 1>>
                 ELSE <<Token(IF c = BT THEN "Name" ELSE "Literal", SubSeq(s, i, e - 1)), e>>)
        ELSE Let(number_end(s, i), LAMBDA d :
        IF d # 0 THEN <<Token("Literal", SubSeq(s, i, d - 1)), d>>
        ELSE IF IsWordCh(c)
        THEN Let(not_null_end(s, i), LAMBDA n :
             Let(IF n # 0 THEN n ELSE skip_word(s, i), LAMBDA e :
                 <<Token(IF n # 0 THEN "Keyword" ELSE word_ttype(SubSeq(s, i, e - 1)),
                         SubSeq(s, i, e - 1)), e>>))
        ELSE <<Token(IF InChars(c, ";:()[],.") THEN "Punctuation" ELSE "Operator", c),
               i + 1>>))

flatten_step(s, i, lexed) ==
    IF i < lexed.next THEN lexed
    ELSE Let(token_at(s, i), LAMBDA t :
             [tokens |-> Append(lexed.tokens, t[1]), next |-> t[2]])

\* list(statement.flatten()) for a text that is one statement
flatten(s) == Scan(flatten_step, s, 1, Len(s), [tokens |-> <<>>, next |-> 1]).tokens

statements_step(tokens, i, st) ==
    IF tokens[i].value = ";"
    THEN [statements |-> Append(st.statements, Append(st.current, tokens[i])),
          current |-> <<>>]
    ELSE [st EXCEPT !.current = Append(@, tokens[i])]

\* sqlparse.parse(content): the token lists of the statements, each ending
\* with its semicolon
sqlparse_parse(content) ==
    Let(flatten(content), LAMBDA tokens :
    Let(Scan(statements_step, tokens, 1, Len(tokens),
             [statements |-> <<>>, current |-> <<>>]), LAMBDA st :
        IF st.current = <<>> THEN st.statements ELSE Append(st.statements, st.current)))

\* statement.get_type(): the first token that is not white space, if it is a
\* DDL keyword
get_type(statement) ==
    LET rest == SelectSeq(statement, LAMBDA t : t.ttype # "Whitespace")
    IN  IF rest # <<>> /\ rest[1].ttype = "Keyword.DDL" THEN upper(rest[1].value)
        ELSE "UNKNOWN"

-----------------------------------------------------------------------------
(* ddl_parser.py: DDLParser, the extractor that convert_to_dbml.py uses    *)

\* _clean_identifier
clean_identifier(identifier) ==
    LET cleaned == strip_chars(identifier, BT \o "\"'")
    IN  IF Contains(cleaned, "@") THEN split(cleaned, "@")[1] ELSE cleaned

\* lines 55-66: the table name that the loop over the tokens finds, "" if none
RECURSIVE table_name_of(_, _, _, _)
table_name_of(tokens, i, create_found, table_found) ==
    IF i > Len(tokens) THEN ""
    ELSE LET token == tokens[i]
         IN  IF token.ttype \in {"Keyword", "Keyword.DDL"} /\ upper(token.value) = "CREATE"
             THEN table_name_of(tokens, i + 1, TRUE, table_found)
             ELSE IF create_found /\ token.ttype = "Keyword" /\ upper(token.value) = "TABLE"
             THEN table_name_of(tokens, i + 1, create_found, TRUE)
             ELSE IF table_found /\ token.ttype = "Name"
             THEN clean_identifier(token.value)
             ELSE IF table_found /\ strip(token.value) # ""
                     /\ token.value \notin {"(", ")", ",", ";"}
             THEN clean_identifier(token.value)
             ELSE table_name_of(tokens, i + 1, create_found, table_found)

\* lines 78-82: the first token that holds both parentheses and COMMENT
\* (its index, 0 if none)
RECURSIVE table_content_token(_, _)
table_content_token(tokens, i) ==
    IF i > Len(tokens) THEN 0
    ELSE IF Contains(tokens[i].value, "(") /\ Contains(tokens[i].value, ")")
            /\ Contains(tokens[i].value, "COMMENT")
         THEN i
         ELSE table_content_token(tokens, i + 1)

\* lines 89-103: one turn of the loop over the tokens
table_def_step(tokens, i, st) ==
    IF st.closed THEN st
    ELSE IF tokens[i].value = "(" /\ st.table_def_start = -1
    THEN [st EXCEPT !.table_def_start = i, !.paren_count = 1]
    ELSE IF st.table_def_start # -1
    THEN LET count == IF tokens[i].value = "(" THEN st.paren_count + 1
                      ELSE IF tokens[i].value = ")" THEN st.paren_count - 1
                      ELSE st.paren_count
         IN  IF count = 0 THEN [st EXCEPT !.paren_count = 0, !.closed = TRUE]
             ELSE [st EXCEPT !.paren_count = count,
                             !.table_def_tokens = Append(@, tokens[i])]
    ELSE st

\* lines 89-103: the tokens between the first ( and the ) that closes it
table_def_tokens(tokens) ==
    Scan(table_def_step, tokens, 1, Len(tokens),
         [table_def_start |-> -1, paren_count |-> 0, table_def_tokens |-> <<>>,
          closed |-> FALSE]).table_def_tokens

\* line 120: the values of the tokens that are not white space, joined by spaces
joined_tokens(tokens) ==
    LET kept == SelectSeq(tokens, LAMBDA t : strip(t.value) # "")
    IN  join(" ", [k \in 1..Len(kept) |-> kept[k].value])

\* an item is appended when it is not blank
with_item(items, current_item) ==
    IF strip(current_item) # "" THEN Append(items, strip(current_item)) ELSE items

\* lines 133-160: one turn of the loop over the characters of content
split_items_step(content, i, st) ==
    LET char == Ch(content, i)
        more == [st EXCEPT !.current_item = @ \o char]
    IN  IF char \in {"'", "\""} /\ (i = 1 \/ Ch(content, i - 1) # "\\")
        THEN IF ~st.in_quotes THEN [more EXCEPT !.in_quotes = TRUE, !.quote_char = char]
             ELSE IF char = st.quote_char
             THEN [more EXCEPT !.in_quotes = FALSE, !.quote_char = ""]
             ELSE more
        ELSE IF char = "(" /\ ~st.in_quotes THEN [more EXCEPT !.paren_depth = @ + 1]
        ELSE IF char = ")" /\ ~st.in_quotes THEN [more EXCEPT !.paren_depth = @ - 1]
        ELSE IF char = "," /\ ~st.in_quotes /\ st.paren_depth = 0
        THEN [st EXCEPT !.items = with_item(@, st.current_item), !.current_item = ""]
        ELSE more

\* lines 124-164: the items between the commas that are outside quotes and
\* parentheses
split_items(content) ==
    LET st == Scan(split_items_step, content, 1, Len(content),
                   [in_quotes |-> FALSE, quote_char |-> "", paren_depth |-> 0,
                    current_item |-> "", items |-> <<>>])
    IN  with_item(st.items, st.current_item)

\* lines 175-177: an item that is a remark, or that holds no letter, is skipped
\* (the texts of the model hold none of the Korean words of line 176)
is_filtered_item(item) ==
    \/ startswith(item, "--")
    \/ startswith(item, "/*")
    \/ ~\E k \in 1..Len(item) : IsAlphaCh(Ch(item, k))

\* line 181: the item is handed to _parse_constraint
is_constraint_item(item) ==
    \E keyword \in {"PRIMARY KEY", "FOREIGN KEY", "INDEX", "UNIQUE KEY", "KEY"} :
        Contains(upper(item), keyword)

\* the first index >= i whose character is a backquote, a double quote or
\* white space (the end of [^`"\s]+)
RECURSIVE skip_name(_, _)
skip_name(s, i) ==
    IF i <= Len(s) /\ Ch(s, i) # BT /\ Ch(s, i) # "\"" /\ ~IsSpaceCh(Ch(s, i))
    THEN skip_name(s, i + 1) ELSE i

\* \(([^)]+)\) at index i: <<the group, the index after the match>>, <<>> on failure
paren_group(s, i) ==
    LET close == IF i <= Len(s) /\ Ch(s, i) = "(" THEN find_from(s, ")", i + 1) ELSE 0
    IN  IF close > i + 1 THEN <<SubSeq(s, i + 1, close - 1), close + 1>> ELSE <<>>

\* line 283: the groups <<name, data type>> of the column pattern, <<>> on failure
column_match(definition) ==
    Let(strip(definition), LAMBDA s :
    Let(IF s # "" /\ Ch(s, 1) \in {BT, "\""} THEN 2 ELSE 1, LAMBDA n0 :
    Let(skip_name(s, n0), LAMBDA n1 :
    Let(IF n1 <= Len(s) /\ Ch(s, n1) \in {BT, "\""} THEN n1 + 1 ELSE n1, LAMBDA q1 :
    Let(skip_space(s, q1), LAMBDA t0 :
    Let(skip_alpha(s, t0), LAMBDA t1 :
    Let(IF t1 <= Len(s) /\ Ch(s, t1) = "(" THEN find_from(s, ")", t1 + 1) ELSE 0,
        LAMBDA close :
    Let(IF close # 0 THEN close + 1 ELSE t1, LAMBDA t2 :
        IF n1 = n0 \/ t0 = q1 \/ t1 = t0 THEN <<>>
        ELSE <<SubSeq(s, n0, n1 - 1), SubSeq(s, t0, t2 - 1)>>))))))))

\* lines 291-297: <<base type, size>> of a data type
type_match(data_type) ==
    LET a == skip_alpha(data_type, 1)
        group == paren_group(data_type, a)
    IN  <<upper(SubSeq(data_type, 1, a - 1)), IF group # <<>> THEN Some(group[1]) ELSE None>>

\* line 301: the start of the first COMMENT that is followed by white space,
\* a quote and, later, another quote (0 if none); U is the text in upper case
RECURSIVE comment_match_start(_, _)
comment_match_start(U, from) ==
    LET p == find_from(U, "COMMENT", from)
        w == skip_space(U, p + 7)
    IN  IF p = 0 THEN 0
        ELSE IF /\ w > p + 7
                /\ w <= Len(U)
                /\ Ch(U, w) \in {"'", "\""}
                /\ \E j \in (w + 1)..Len(U) : Ch(U, j) \in {"'", "\""}
             THEN p
             ELSE comment_match_start(U, p + 1)

\* the first index >= i whose character is a quote or a newline, 0 at the end
RECURSIVE next_quote_or_newline(_, _)
next_quote_or_newline(s, i) ==
    IF i > Len(s) THEN 0
    ELSE IF Ch(s, i) \in {"'", "\"", "\n"} THEN i
    ELSE next_quote_or_newline(s, i + 1)

\* \s*-\s*\d{2} from index i (0 on failure)
dash_digits(s, i) ==
    LET dash == IF i = 0 THEN 0 ELSE Lit(s, skip_space(s, i), "-")
    IN  IF dash = 0 THEN 0 ELSE Digits_n(s, skip_space(s, dash), 2)

\* \d{4}\s*-\s*\d{2}\s*-\s*\d{2}(?:\s+\d{2}:\d{2}:\d{2})? from index i
spaced_date_end(s, i) ==
    Let(dash_digits(s, dash_digits(s, Digits_n(s, i, 4))), LAMBDA d :
    Let(IF d = 0 THEN 0 ELSE skip_space(s, d), LAMBDA w :
    Let(IF w > d THEN match_hms(s, w) ELSE 0, LAMBDA t :
        IF d = 0 THEN 0 ELSE IF t # 0 THEN t ELSE d)))

\* the first index >= i whose character is white space or a comma
RECURSIVE skip_value(_, _)
skip_value(s, i) ==
    IF i <= Len(s) /\ ~IsSpaceCh(Ch(s, i)) /\ Ch(s, i) # "," THEN skip_value(s, i + 1) ELSE i

\* the alternatives of the group of the DEFAULT pattern at index w, in their
\* order: the index after the group, 0 when none matches
default_group_end(s, w) ==
    Let(IF w <= Len(s) /\ Ch(s, w) \in {"'", "\""}
        THEN next_quote_or_newline(s, w + 1) ELSE 0, LAMBDA q :
        IF q # 0 /\ Ch(s, q) # "\n" THEN q + 1
        ELSE Let(spaced_date_end(s, w), LAMBDA date :
             IF date # 0 THEN date
             ELSE Let(match_hms(s, w), LAMBDA time :
                  IF time # 0 THEN time
                  ELSE Let(skip_value(s, w), LAMBDA value :
                       IF value > w THEN value ELSE 0))))

\* line 321: the group of the first match of the DEFAULT pattern, <<>> if none
RECURSIVE default_match(_, _)
default_match(s, from) ==
    Let(find_from(upper(s), "DEFAULT", from), LAMBDA p :
    Let(skip_space(s, p + 7), LAMBDA w :
    Let(IF w > p + 7 THEN default_group_end(s, w) ELSE 0, LAMBDA e :
        IF p = 0 THEN <<>>
        ELSE IF e # 0 THEN <<SubSeq(s, w, e - 1)>>
        ELSE default_match(s, p + 1))))

\* re.match(r'\d+\s*[-:]\s*\d+', s)
is_spaced_number(s) ==
    LET d == skip_digits(s, 1)
        w == skip_space(s, d)
        v == skip_space(s, w + 1)
    IN  /\ d > 1
        /\ w <= Len(s)
        /\ Ch(s, w) \in {"-", ":"}
        /\ v <= Len(s)
        /\ IsDigitCh(Ch(s, v))

\* re.sub(r'\s+', '', s)
RECURSIVE without_space(_)
without_space(s) ==
    IF s = "" THEN ""
    ELSE (IF IsSpaceCh(Head(s)) THEN "" ELSE Head(s)) \o without_space(Tail(s))

\* lines 323-331: the default value from the group of the pattern
default_value_of(group) ==
    LET stripped == strip(group)
        default_val == IF is_spaced_number(stripped) THEN without_space(stripped) ELSE stripped
    IN  IF \/ (startswith(default_val, "'") /\ endswith(default_val, "'"))
           \/ (startswith(default_val, "\"") /\ endswith(default_val, "\""))
        THEN replace(replace(SubSeq(default_val, 2, Len(default_val) - 1), "\\'", "'"),
                     "\\\"", "\"")
        ELSE default_val

\* _parse_column_definition: <<the column record>>, <<>> for None
parse_column_definition(definition) ==
    Let(column_match(definition), LAMBDA groups :
    Let(comment_match_start(upper(definition), 1), LAMBDA comment_start :
    Let(IF comment_start # 0
        THEN upper(SubSeq(definition, 1, comment_start - 1))
        ELSE upper(definition), LAMBDA attributes_part :
    Let(default_match(attributes_part, 1), LAMBDA default :
        IF groups = <<>> THEN <<>>
        ELSE Let(type_match(groups[2]), LAMBDA type :
             <<[name |-> clean_identifier(groups[1]),
                type |-> type[1],
                size |-> type[2],
                nullable |-> ~Contains(attributes_part, "NOT NULL"),
                auto_increment |-> Contains(attributes_part, "AUTO_INCREMENT"),
                primary_key |-> Contains(attributes_part, "PRIMARY KEY"),
                unique |-> Contains(attributes_part, "UNIQUE"),
                default |-> IF default # <<>> THEN Some(default_value_of(default[1]))
                            ELSE None]>>)))))

\* [col.strip().strip(backquote) for col in group.split(',')]
stripped_columns(group) ==
    LET parts == split(group, ",")
    IN  [k \in 1..Len(parts) |-> strip_chars(strip(parts[k]), BT)]

\* re.sub(r'\(\d+\)', '', col)
RECURSIVE without_lengths(_)
without_lengths(col) ==
    LET close == IF col # "" /\ Head(col) = "(" THEN skip_digits(col, 2) ELSE 0
    IN  IF col = "" THEN ""
        ELSE IF close > 2 /\ close <= Len(col) /\ Ch(col, close) = ")"
        THEN without_lengths(SubSeq(col, close + 1, Len(col)))
        ELSE Head(col) \o without_lengths(Tail(col))

\* re.match(r'^[a-zA-Z_][a-zA-Z0-9_]*$', col)
is_identifier(col) ==
    /\ col # ""
    /\ (IsAlphaCh(Head(col)) \/ Head(col) = "_")
    /\ AtDollar(col, skip_word(col, 1))

\* lines 371-378 and 393-400: the names of an index that are identifiers
index_columns(group) ==
    LET columns == stripped_columns(group)
    IN  SelectSeq([k \in 1..Len(columns) |-> without_lengths(columns[k])],
                  LAMBDA col : is_identifier(col))

\* (?:`[^`]*`\s+)? at index i: the index after it (i when it is left out)
optional_index_name(s, i) ==
    LET close == IF i <= Len(s) /\ Ch(s, i) = BT THEN find_from(s, BT, i + 1) ELSE 0
        after == IF close # 0 THEN skip_space(s, close + 1) ELSE 0
    IN  IF close # 0 /\ after > close + 1 THEN after ELSE i

\* line 342: PRIMARY\s+KEY\s*\(([^)]+)\), searched in U from index from
RECURSIVE primary_key_match(_, _)
primary_key_match(U, from) ==
    LET p == find_from(U, "PRIMARY", from)
        k == skip_space(U, p + 7)
        group == IF k > p + 7 /\ At(U, k, "KEY")
                 THEN paren_group(U, skip_space(U, k + 3)) ELSE <<>>
    IN  IF p = 0 THEN <<>>
        ELSE IF group # <<>> THEN group
        ELSE primary_key_match(U, p + 1)

\* line 367: UNIQUE\s+(?:KEY\s+)?(?:`[^`]*`\s+)?\(([^)]+)\)
RECURSIVE unique_match(_, _)
unique_match(U, from) ==
    LET p == find_from(U, "UNIQUE", from)
        w == skip_space(U, p + 6)
        k == IF At(U, w, "KEY") /\ skip_space(U, w + 3) > w + 3
             THEN skip_space(U, w + 3) ELSE w
        group == IF w > p + 6 THEN paren_group(U, optional_index_name(U, k)) ELSE <<>>
    IN  IF p = 0 THEN <<>>
        ELSE IF group # <<>> THEN group
        ELSE unique_match(U, p + 1)

\* line 389: KEY\s+(?:`[^`]*`\s+)?\(([^)]+)\)
RECURSIVE key_match(_, _)
key_match(U, from) ==
    LET p == find_from(U, "KEY", from)
        w == skip_space(U, p + 3)
        group == IF w > p + 3 THEN paren_group(U, optional_index_name(U, w)) ELSE <<>>
    IN  IF p = 0 THEN <<>>
        ELSE IF group # <<>> THEN group
        ELSE key_match(U, p + 1)

\* the first index >= i whose character is white space or (
RECURSIVE skip_table_name(_, _)
skip_table_name(s, i) ==
    IF i <= Len(s) /\ ~IsSpaceCh(Ch(s, i)) /\ Ch(s, i) # "(" THEN skip_table_name(s, i + 1) ELSE i

\* FOREIGN\s+KEY\s*\(([^)]+)\)\s*REFERENCES\s+([^\s(]+)\s*\(([^)]+)\), searched
\* without regard to case, the groups taken from the text as written; spaced
\* tells that white space is needed before REFERENCES (\)\s+REFERENCES)
RECURSIVE foreign_key_search(_, _, _)
foreign_key_search(definition, from, spaced) ==
    Let(upper(definition), LAMBDA U :
    Let(find_from(U, "FOREIGN", from), LAMBDA p :
    Let(skip_space(U, p + 7), LAMBDA k :
    Let(IF k > p + 7 /\ At(U, k, "KEY")
        THEN paren_group(definition, skip_space(U, k + 3)) ELSE <<>>, LAMBDA source :
    Let(IF source # <<>> THEN skip_space(U, source[2]) ELSE 0, LAMBDA r :
    Let(IF r # 0 /\ At(U, r, "REFERENCES") /\ (spaced => r > source[2])
        THEN skip_space(U, r + 10) ELSE 0, LAMBDA t0 :
    Let(IF t0 > r + 10 THEN skip_table_name(definition, t0) ELSE 0, LAMBDA t1 :
    Let(IF t1 > t0 THEN paren_group(definition, skip_space(U, t1)) ELSE <<>>, LAMBDA target :
        IF p = 0 THEN <<>>
        ELSE IF target # <<>> THEN <<source[1], SubSeq(definition, t0, t1 - 1), target[1]>>
        ELSE foreign_key_search(definition, p + 1, spaced)))))))))

\* line 352: the groups of the first match of the pattern, <<>> if none
foreign_key_match(definition, from) == foreign_key_search(definition, from, FALSE)

\* _parse_constraint: <<the constraint record>>, <<>> for None
parse_constraint(definition) ==
    Let(upper(definition), LAMBDA definition_upper :
        IF Contains(definition_upper, "PRIMARY KEY")
        THEN Let(primary_key_match(definition_upper, 1), LAMBDA columns_match :
                 IF columns_match # <<>>
                 THEN <<Constraint("primary_key", stripped_columns(columns_match[1]))>>
                 ELSE <<>>)
        ELSE IF Contains(definition_upper, "FOREIGN KEY")
        THEN Let(foreign_key_match(definition, 1), LAMBDA fk_match :
                 IF fk_match # <<>>
                 THEN <<ForeignKey(stripped_columns(fk_match[1]),
                                   strip_chars(fk_match[2], BT),
                                   stripped_columns(fk_match[3]))>>
                 ELSE <<>>)
        ELSE IF Contains(definition_upper, "UNIQUE")
        THEN Let(unique_match(definition_upper, 1), LAMBDA group :
             Let(IF group # <<>> THEN index_columns(group[1]) ELSE <<>>, LAMBDA columns :
                 IF columns # <<>> THEN <<Constraint("unique", columns)>> ELSE <<>>))
        ELSE IF /\ Contains(definition_upper, "KEY")
                /\ ~Contains(definition_upper, "PRIMARY")
                /\ ~Contains(definition_upper, "FOREIGN")
        THEN Let(key_match(definition_upper, 1), LAMBDA group :
             Let(IF group # <<>> THEN index_columns(group[1]) ELSE <<>>, LAMBDA columns :
                 IF columns # <<>> THEN <<Constraint("index", columns)>> ELSE <<>>))
        ELSE <<>>)

\* str.rfind(sub) for a one-character sub (0 for -1)
rfind(s, sub) ==
    LET hits == {i \in 1..Len(s) : Ch(s, i) = sub}
    IN  IF hits = {} THEN 0 ELSE CHOOSE i \in hits : \A j \in hits : j <= i

\* lines 211-245: one turn of the loop over the characters of table_content
split_from_string_step(table_content, i, st) ==
    LET char == Ch(table_content, i)
        more == [st EXCEPT !.current_item = @ \o char]
    IN  IF ~st.in_comment /\ upper(SubSeq(table_content, i, Min(i + 6, Len(table_content))))
                                = "COMMENT"
        THEN [more EXCEPT !.in_comment = TRUE]
        ELSE IF st.in_comment /\ char \in {"'", "\""}
                /\ (i = 1 \/ Ch(table_content, i - 1) # "\\")
        THEN IF st.quote_char = "" THEN [more EXCEPT !.quote_char = char]
             ELSE IF char = st.quote_char
             THEN [more EXCEPT !.quote_char = "",
                               !.in_comment = ~(i + 1 <= Len(table_content)
                                                /\ Ch(table_content, i + 1) \notin {"'", "\""})]
             ELSE more
        ELSE IF ~st.in_comment /\ char = "(" THEN [more EXCEPT !.paren_depth = @ + 1]
        ELSE IF ~st.in_comment /\ char = ")" THEN [more EXCEPT !.paren_depth = @ - 1]
        ELSE IF ~st.in_comment /\ char = "," /\ st.paren_depth = 0
        THEN [st EXCEPT !.items = with_item(@, st.current_item), !.current_item = ""]
        ELSE more

\* lines 204-249: the items between the commas that are outside parentheses
\* and outside a COMMENT literal
split_items_from_string(table_content) ==
    LET st == Scan(split_from_string_step, table_content, 1, Len(table_content),
                   [in_comment |-> FALSE, quote_char |-> "", paren_depth |-> 0,
                    current_item |-> "", items |-> <<>>])
    IN  with_item(st.items, st.current_item)

\* lines 169-189 and 255-275: the items sorted into columns and constraints
RECURSIVE classify_items(_, _, _)
classify_items(items, k, acc) ==
    IF k > Len(items) THEN acc
    ELSE LET item == strip(items[k])
         IN  IF item = "" \/ is_filtered_item(item) THEN classify_items(items, k + 1, acc)
             ELSE IF is_constraint_item(item)
             THEN classify_items(items, k + 1,
                    [acc EXCEPT !.constraints = @ \o parse_constraint(item)])
             ELSE classify_items(items, k + 1,
                    [acc EXCEPT !.columns = @ \o parse_column_definition(item)])

NoRecords == [columns |-> <<>>, constraints |-> <<>>]

\* _parse_table_definition(tokens)
parse_table_definition(tokens) ==
    classify_items(split_items(joined_tokens(tokens)), 1, NoRecords)

\* _parse_table_definition_from_string(content)
parse_table_definition_from_string(content) ==
    LET start == find(content, "(")
        end == rfind(content, ")")
    IN  IF start = 0 \/ end = 0 THEN NoRecords
        ELSE classify_items(split_items_from_string(SubSeq(content, start + 1, end - 1)),
                            1, NoRecords)

\* _parse_create_table(statement): <<the table record>>, <<>> for None
parse_create_table(statement) ==
    Let(table_name_of(statement, 1, FALSE, FALSE), LAMBDA table_name :
    Let(table_content_token(statement, 1), LAMBDA big :
    Let(IF big # 0 THEN <<>> ELSE table_def_tokens(statement), LAMBDA tokens :
        IF table_name = "" \/ (big = 0 /\ tokens = <<>>) THEN <<>>
        ELSE Let(IF big # 0 THEN parse_table_definition_from_string(statement[big].value)
                 ELSE parse_table_definition(tokens), LAMBDA records :
                 <<Table(table_name, records.columns, records.constraints)>>))))

\* an assignment that keeps the entry the mapping already has for the name
dict_set_keep_first(table_info, table) ==
    IF \E t \in 1..Len(table_info) : table_info[t].name = table.name
    THEN table_info
    ELSE Append(table_info, table)

\* table_info[name] = table on a dict kept as a sequence in insertion order
dict_set(table_info, table) ==
    IF \E t \in 1..Len(table_info) : table_info[t].name = table.name
    THEN [t \in 1..Len(table_info) |->
            IF table_info[t].name = table.name THEN table ELSE table_info[t]]
    ELSE Append(table_info, table)

RECURSIVE dict_update(_, _)
dict_update(table_info, tables) ==
    IF tables = <<>> THEN table_info
    ELSE dict_update(dict_set(table_info, Head(tables)), Tail(tables))

\* lines 38-42: the tables of the CREATE statements, in their order
RECURSIVE tables_of_statements(_, _)
tables_of_statements(statements, table_info) ==
    IF statements = <<>> THEN table_info
    ELSE tables_of_statements(Tail(statements),
            IF get_type(Head(statements)) = "CREATE"
            THEN dict_update(table_info, parse_create_table(Head(statements)))
            ELSE table_info)

\* DDLParser.parse_ddl_content(content)
parse_ddl_content(content) == tables_of_statements(sqlparse_parse(content), <<>>)

-----------------------------------------------------------------------------
(* Reading a file: a file is [name, text, tail, readable], where text is   *)
(* the ASCII text it starts with, tail the bytes that follow it, and       *)
(* readable tells whether open() succeeds on it. A character that is not   *)
(* an ASCII letter is written u<code point>.                               *)

\* str(n) of a natural number
RECURSIVE str_of(_)
str_of(n) ==
    IF n < 10 THEN Ch(DigitChars, n + 1)
    ELSE str_of(n \div 10) \o Ch(DigitChars, (n % 10) + 1)

\* chr(n)
chr(n) ==
    IF n \in 65..90 THEN Ch(Uppers, n - 64)
    ELSE IF n \in 97..122 THEN Ch(Lowers, n - 96)
    ELSE "u" \o str_of(n)

\* a decoded character before the decoding of the rest, None if that failed
decoded(c, rest) == IF rest = None THEN None ELSE Some(c \o rest[1])

\* bytes.decode('utf-8') from index i, on sequences of one and two bytes: None
\* is UnicodeDecodeError
RECURSIVE utf_8_decode(_, _)
utf_8_decode(bytes, i) ==
    IF i > Len(bytes) THEN Some("")
    ELSE IF bytes[i] < 128 THEN decoded(chr(bytes[i]), utf_8_decode(bytes, i + 1))
    ELSE IF bytes[i] \in 194..223 /\ i + 1 <= Len(bytes) /\ bytes[i + 1] \in 128..191
    THEN decoded(chr((bytes[i] - 192) * 64 + (bytes[i + 1] - 128)),
                 utf_8_decode(bytes, i + 2))
    ELSE None

\* the characters that the cp949 table assigns to the two-byte sequences made
\* of the bytes 0x41, 0xB5 and 0xC3
cp949_table ==
    (<<195, 65>> :> 54845) @@ (<<195, 195>> :> 52425) @@ (<<195, 181>> :> 52380)
    @@ (<<181, 65>> :> 53397) @@ (<<181, 195>> :> 46052) @@ (<<181, 181>> :> 46020)

\* bytes.decode('cp949'); euc-kr is the same table without the sequences whose
\* second byte is below 0xA1
RECURSIVE cp949_decode(_, _, _)
cp949_decode(bytes, i, euc_kr) ==
    IF i > Len(bytes) THEN Some("")
    ELSE IF bytes[i] < 128 THEN decoded(chr(bytes[i]), cp949_decode(bytes, i + 1, euc_kr))
    ELSE IF /\ i + 1 <= Len(bytes)
            /\ <<bytes[i], bytes[i + 1]>> \in DOMAIN cp949_table
            /\ (euc_kr => bytes[i + 1] >= 161)
    THEN decoded(chr(cp949_table[<<bytes[i], bytes[i + 1]>>]),
                 cp949_decode(bytes, i + 2, euc_kr))
    ELSE None

\* bytes.decode('latin-1'): every byte is the character of its value
RECURSIVE latin_1_decode(_, _)
latin_1_decode(bytes, i) ==
    IF i > Len(bytes) THEN ""
    ELSE chr(bytes[i]) \o latin_1_decode(bytes, i + 1)

decode(bytes, encoding) ==
    CASE encoding = "utf-8" -> utf_8_decode(bytes, 1)
      [] encoding = "cp949" -> cp949_decode(bytes, 1, FALSE)
      [] encoding = "euc-kr" -> cp949_decode(bytes, 1, TRUE)
      [] encoding = "latin-1" -> Some(latin_1_decode(bytes, 1))

\* the outcome of a call: the exception it raised ("" when it returned) and
\* the text it returned
Raised(exception) == [raised |-> exception, text |-> ""]
Returned(text) == [raised |-> "", text |-> text]

\* with open(file_path, 'r', encoding=encoding) as f: content = f.read()
open_read(file, encoding) ==
    IF ~file.readable THEN Raised("PermissionError")
    ELSE LET tail == decode(file.tail, encoding)
         IN  IF tail = None THEN Raised("UnicodeDecodeError")
             ELSE Returned(file.text \o tail[1])

\* ddl_parser.py lines 21-27: the content that DDLParser.parse_file reads
ddl_parser_read(file) ==
    LET first == open_read(file, "utf-8")
    IN  IF first.raised = "UnicodeDecodeError" THEN open_read(file, "latin-1") ELSE first

\* base_ddl_parser.py line 19
encodings == <<"utf-8", "cp949", "euc-kr", "latin-1">>

\* base_parser_read with the list tried from its last encoding
base_parser_read_last_first(file, k) == open_read(file, encodings[Len(encodings)])

\* base_ddl_parser.py lines 21-30: the content that BaseDDLParser.parse_file
\* reads, trying the encodings from the k-th on; the raise of line 30 builds a
\* UnicodeDecodeError from one argument, which is a TypeError
RECURSIVE base_parser_read(_, _)
base_parser_read(file, k) ==
    IF k > Len(encodings) THEN Raised("TypeError")
    ELSE LET read == open_read(file, encodings[k])
         IN  IF read.raised = "UnicodeDecodeError" THEN base_parser_read(file, k + 1)
             ELSE read

-----------------------------------------------------------------------------
(* dbml_converter.py: the reconciliation pass                              *)
(* A source directory is a sequence of files [name, text]; the file of a   *)
(* table is the one whose name is the table name followed by .sql.         *)

\* the lookahead of the column pattern of line 559 at index e
column_lookahead(s, e) ==
    \/ At(s, e, ",")
    \/ /\ At(s, e, "\n")
       /\ \E word \in {"PRIMARY", "UNIQUE", "KEY", "CONSTRAINT", ")"} :
                At(s, skip_space(s, e + 1), word)

\* line 559: the match of the column pattern that starts at the backquote at
\* index p: <<name, type, attributes, the index after the match>>, <<>> if none.
\* The white space after the type is taken as long as a match allows, the
\* attributes as short as the lookahead allows.
column_pattern_at(s, p) ==
    Let(find_from(s, BT, p + 1), LAMBDA q :
    Let(skip_space(s, q + 1), LAMBDA t0 :
    Let(skip_alpha(s, t0), LAMBDA t1 :
    Let(IF At(s, t1, "(") THEN find_from(s, ")", t1 + 1) ELSE 0, LAMBDA close :
    Let(IF close # 0 THEN close + 1 ELSE t1, LAMBDA t :
    Let(skip_space(s, t), LAMBDA w :
    Let({x \in (t + 1)..Min(w, Len(s)) :
            Ch(s, x) # "," /\ First(LAMBDA y : column_lookahead(s, y), x + 1, Len(s)) # 0},
        LAMBDA starts :
        IF q <= p + 1 \/ t0 = q + 1 \/ t1 = t0 \/ w = t \/ starts = {} THEN <<>>
        ELSE Let(CHOOSE x \in starts : \A y \in starts : y <= x, LAMBDA a :
             Let(First(LAMBDA x : column_lookahead(s, x), a + 1, Len(s)), LAMBDA e :
                 <<SubSeq(s, p + 1, q - 1), SubSeq(s, t0, t - 1), SubSeq(s, a, e - 1),
                   e>>)))))))))

\* re.findall of line 560, one index of the text at a time
column_matches_step(s, i, st) ==
    IF i < st.next \/ Ch(s, i) # BT THEN st
    ELSE Let(column_pattern_at(s, i), LAMBDA m :
             IF m = <<>> THEN st
             ELSE [matches |-> Append(st.matches, m), next |-> m[4]])

\* the first index >= i whose character is a quote or white space
RECURSIVE skip_bare_default(_, _)
skip_bare_default(s, i) ==
    IF i <= Len(s) /\ Ch(s, i) # "'" /\ ~IsSpaceCh(Ch(s, i))
    THEN skip_bare_default(s, i + 1) ELSE i

\* line 573: the group of DEFAULT\s+([^'\s]+|'[^']*'), <<>> if there is no match
RECURSIVE ddl_default_match(_, _)
ddl_default_match(attributes, from) ==
    Let(find_from(upper(attributes), "DEFAULT", from), LAMBDA p :
    Let(skip_space(attributes, p + 7), LAMBDA w :
    Let(skip_bare_default(attributes, w), LAMBDA bare :
    Let(IF At(attributes, w, "'") THEN find_from(attributes, "'", w + 1) ELSE 0,
        LAMBDA close :
        IF p = 0 THEN <<>>
        ELSE IF w > p + 7 /\ bare > w THEN <<SubSeq(attributes, w, bare - 1)>>
        ELSE IF w > p + 7 /\ close # 0 THEN <<SubSeq(attributes, w, close)>>
        ELSE ddl_default_match(attributes, p + 1)))))

\* lines 563-584: the column record of one match
ddl_column(match) ==
    Let(strip(match[3]), LAMBDA attributes :
    Let(ddl_default_match(attributes, 1), LAMBDA default_match_ :
    Let(IF default_match_ = <<>> THEN None
        ELSE IF default_match_[1] # "" /\ startswith(default_match_[1], "'")
                /\ endswith(default_match_[1], "'")
        THEN Some(SubSeq(default_match_[1], 2, Len(default_match_[1]) - 1))
        ELSE Some(default_match_[1]), LAMBDA default_value :
        [name |-> match[1],
         type |-> upper(match[2]),
         nullable |-> ~Contains(upper(attributes), "NOT NULL"),
         auto_increment |-> Contains(upper(attributes), "AUTO_INCREMENT"),
         default |-> default_value])))

\* _extract_columns_from_ddl_file, on the text of the file
extract_columns_from_ddl_file(content) ==
    Let(Scan(column_matches_step, content, 1, Len(content),
             [matches |-> <<>>, next |-> 1]).matches, LAMBDA matches :
        [k \in 1..Len(matches) |-> ddl_column(matches[k])])

\* the keys and values of the dict of lines 593-625, in its order
sql_type_mapping ==
    <<<<"TINYINT", "tinyint">>, <<"SMALLINT", "smallint">>, <<"MEDIUMINT", "int">>,
      <<"INT", "int">>, <<"INTEGER", "int">>, <<"BIGINT", "bigint">>,
      <<"DECIMAL", "decimal">>, <<"NUMERIC", "decimal">>, <<"FLOAT", "float">>,
      <<"DOUBLE", "double">>, <<"BIT", "bit">>, <<"CHAR", "char">>,
      <<"VARCHAR", "varchar">>, <<"BINARY", "binary">>, <<"VARBINARY", "varbinary">>,
      <<"TINYBLOB", "blob">>, <<"BLOB", "blob">>, <<"MEDIUMBLOB", "blob">>,
      <<"LONGBLOB", "blob">>, <<"TINYTEXT", "text">>, <<"TEXT", "text">>,
      <<"MEDIUMTEXT", "text">>, <<"LONGTEXT", "longtext">>, <<"ENUM", "enum">>,
      <<"SET", "set">>, <<"DATE", "date">>, <<"TIME", "time">>,
      <<"DATETIME", "datetime">>, <<"TIMESTAMP", "timestamp">>, <<"YEAR", "year">>,
      <<"JSON", "json">>>>

\* _convert_sql_type_to_dbml
convert_sql_type_to_dbml(type) ==
    LET sql_type == upper(type)
        hits == {k \in 1..Len(sql_type_mapping) : startswith(sql_type, sql_type_mapping[k][1])}
        k == CHOOSE x \in hits : \A y \in hits : x <= y
    IN  IF hits # {}
        THEN sql_type_mapping[k][2]
             \o strip(SubSeq(sql_type, Len(sql_type_mapping[k][1]) + 1, Len(sql_type)))
        ELSE IF sql_type = "FOREIGN" THEN "int"
        ELSE lower(sql_type)

\* lines 444-456: the default attribute of a column that is patched in
reconcile_default_literal(default) ==
    IF upper(default) = "CURRENT_TIMESTAMP" THEN Q("now()")
    ELSE IF upper(default) = "NULL" THEN "null"
    ELSE IF isdigit(default) \/ isdigit(replace(replace(default, ".", ""), "-", ""))
    THEN default
    ELSE IF lower(default) \in {"true", "false"} THEN lower(default)
    ELSE "'" \o escape_string_value(default) \o "'"

\* lines 437-461: the line that is written for a missing column
missing_col_definition(col) ==
    LET attributes ==
            (IF ~col.nullable THEN <<"not null">> ELSE <<>>)
            \o (IF col.auto_increment THEN <<"increment">> ELSE <<>>)
            \o (IF col.default # None /\ col.default[1] # ""
                THEN <<"default: " \o reconcile_default_literal(col.default[1])>> ELSE <<>>)
        attr_str == IF attributes # <<>> THEN " [" \o join(", ", attributes) \o "]" ELSE ""
    IN  "  " \o replace(col.name, " ", "_") \o " " \o convert_sql_type_to_dbml(col.type)
        \o attr_str

\* line 397: the match of  Table\s+(\w+)\s*\{([^}]+)\}  that starts at index p:
\* <<table name, table content, the index after the match>>, <<>> if none
table_pattern_at(s, p) ==
    LET n0 == skip_space(s, p + 5)
        n1 == skip_word(s, n0)
        open == skip_space(s, n1)
        close == IF At(s, open, "{") THEN find_from(s, "}", open + 1) ELSE 0
    IN  IF n0 = p + 5 \/ n1 = n0 \/ close <= open + 1 THEN <<>>
        ELSE <<SubSeq(s, n0, n1 - 1), SubSeq(s, open + 1, close - 1), close + 1>>

\* line 398: re.findall of the table pattern, from index from on
RECURSIVE table_matches(_, _)
table_matches(s, from) ==
    Let(find_from(s, "Table", from), LAMBDA p :
    Let(table_pattern_at(s, p), LAMBDA m :
        IF p = 0 THEN <<>>
        ELSE IF m # <<>> THEN <<m>> \o table_matches(s, m[3])
        ELSE table_matches(s, p + 1)))

\* lines 418-424: the column name that a line of a table block declares,
\* <<>> when the line is not read as a column line
dbml_line_column(line) ==
    LET stripped == strip(line)
        e == skip_word(stripped, 1)
    IN  IF /\ stripped # ""
           /\ ~startswith(stripped, "Indexes")
           /\ ~startswith(stripped, "FK_")
           /\ ~startswith(stripped, "//")
           /\ e > 1
           /\ e <= Len(stripped)
           /\ IsSpaceCh(Ch(stripped, e))
        THEN <<SubSeq(stripped, 1, e - 1)>>
        ELSE <<>>

\* lines 415-424 and 469-475: the column names that the table content declares
dbml_column_names(table_content) ==
    Let(split(table_content, "\n"), LAMBDA lines :
        UNION {Let(dbml_line_column(lines[k]), LAMBDA names :
                   {names[j] : j \in 1..Len(names)}) : k \in 1..Len(lines)})

\* lines 478-485: the definitions whose name is not in the table yet, each
\* name once
RECURSIVE filter_definitions(_, _)
filter_definitions(definitions, existing_in_table) ==
    IF definitions = <<>> THEN <<>>
    ELSE LET col_def == Head(definitions)
             n0 == skip_space(col_def, 1)
             n1 == skip_word(col_def, n0)
             matched == n1 > n0 /\ n1 <= Len(col_def) /\ IsSpaceCh(Ch(col_def, n1))
             col_name == SubSeq(col_def, n0, n1 - 1)
         IN  IF matched /\ col_name \notin existing_in_table
             THEN <<col_def>> \o filter_definitions(Tail(definitions),
                                                    existing_in_table \cup {col_name})
             ELSE filter_definitions(Tail(definitions), existing_in_table)

\* the \b of the re module at index i of s (between i - 1 and i)
word_boundary(s, i) ==
    (i > 1 /\ IsWordCh(Ch(s, i - 1))) # (i <= Len(s) /\ IsWordCh(Ch(s, i)))

\* re.sub(r'\b' + re.escape(pattern_name) + r'\b', actual_name, line)
RECURSIVE sub_word(_, _, _, _)
sub_word(line, pattern_name, actual_name, from) ==
    LET hit == First(LAMBDA i : /\ At(line, i, pattern_name)
                                /\ word_boundary(line, i)
                                /\ word_boundary(line, i + Len(pattern_name)),
                     from, Len(line))
    IN  IF pattern_name = "" \/ hit = 0 THEN SubSeq(line, from, Len(line))
        ELSE SubSeq(line, from, hit - 1) \o actual_name
             \o sub_word(line, pattern_name, actual_name, hit + Len(pattern_name))

\* lines 531-545: an index line after the names of the columns were rewritten
RECURSIVE fix_index_line(_, _, _)
fix_index_line(line, ddl_columns, k) ==
    IF k > Len(ddl_columns) THEN line
    ELSE LET actual_name == ddl_columns[k].name
             uppered == IF upper(actual_name) # actual_name
                        THEN sub_word(line, upper(actual_name), actual_name, 1) ELSE line
             lowered == IF lower(actual_name) # actual_name
                        THEN sub_word(uppered, lower(actual_name), actual_name, 1)
                        ELSE uppered
         IN  fix_index_line(lowered, ddl_columns, k + 1)

\* lines 522-549: the lines from index k on, in_indexes telling whether an
\* Indexes block is open
RECURSIVE fix_index_lines(_, _, _, _)
fix_index_lines(lines, k, in_indexes, ddl_columns) ==
    IF k > Len(lines) THEN <<>>
    ELSE IF Contains(lines[k], "Indexes {")
    THEN <<lines[k]>> \o fix_index_lines(lines, k + 1, TRUE, ddl_columns)
    ELSE IF in_indexes /\ strip(lines[k]) = "}"
    THEN <<lines[k]>> \o fix_index_lines(lines, k + 1, FALSE, ddl_columns)
    ELSE IF in_indexes
    THEN <<fix_index_line(lines[k], ddl_columns, 1)>>
         \o fix_index_lines(lines, k + 1, in_indexes, ddl_columns)
    ELSE <<lines[k]>> \o fix_index_lines(lines, k + 1, in_indexes, ddl_columns)

\* _fix_index_column_references
fix_index_column_references(table_content, ddl_columns) ==
    join("\n", fix_index_lines(split(table_content, "\n"), 1, FALSE, ddl_columns))

\* os.path.exists of the file of a table, and the text of that file
ddl_file_exists(schema_dir, table_name) ==
    \E f \in 1..Len(schema_dir) : schema_dir[f].name = table_name \o ".sql"

\* lines 555-556: the outcome of reading that file as UTF-8
ddl_file_read(schema_dir, table_name) ==
    open_read(schema_dir[CHOOSE f \in 1..Len(schema_dir) :
                            schema_dir[f].name = table_name \o ".sql"], "utf-8")

ddl_file_text(schema_dir, table_name) == ddl_file_read(schema_dir, table_name).text

\* lines 489-497: the table content with the definitions inserted
insert_definitions(table_content, filtered_definitions) ==
    IF Contains(table_content, "Indexes {")
    THEN LET found == find(table_content, "\n  Indexes {")
             \* find() gives -1 when the text is absent, and the slices then cut
             \* before the last character
             indexes_pos == IF found # 0 THEN found - 1 ELSE Len(table_content) - 1
         IN  SubSeq(table_content, 1, indexes_pos) \o "\n" \o join("\n", filtered_definitions)
             \o "\n" \o SubSeq(table_content, indexes_pos + 1, Len(table_content))
    ELSE rstrip(table_content) \o "\n" \o join("\n", filtered_definitions) \o "\n"

\* lines 405-504: the document after the block of one table was looked at
fix_table(fixed_content, schema_dir, table_name, table_content) ==
    IF ~ddl_file_exists(schema_dir, table_name) THEN fixed_content
    ELSE Let(extract_columns_from_ddl_file(ddl_file_text(schema_dir, table_name)),
             LAMBDA ddl_columns :
         Let(dbml_column_names(table_content), LAMBDA present :
         Let(SelectSeq(ddl_columns, LAMBDA col : col.name \notin present), LAMBDA missing :
         Let([k \in 1..Len(missing) |-> missing_col_definition(missing[k])],
             LAMBDA definitions :
         Let(filter_definitions(definitions, present), LAMBDA filtered_definitions :
             IF filtered_definitions = <<>> THEN fixed_content
             ELSE replace(fixed_content,
                          "Table " \o table_name \o " {" \o table_content \o "}",
                          "Table " \o table_name \o " {"
                          \o fix_index_column_references(
                                insert_definitions(table_content, filtered_definitions),
                                ddl_columns)
                          \o "}"))))))

RECURSIVE fix_tables(_, _, _)
fix_tables(fixed_content, schema_dir, tables) ==
    IF tables = <<>> THEN fixed_content
    ELSE fix_tables(fix_table(fixed_content, schema_dir, Head(tables)[1], Head(tables)[2]),
                    schema_dir, Tail(tables))

\* validate_and_fix_missing_columns(dbml_content, schema_dir) for a directory
\* that exists, when every file it opens can be read
validate_and_fix_missing_columns(content, schema_dir) ==
    fix_tables(content, schema_dir, table_matches(content, 1))

\* the exception that comes out of validate_and_fix_missing_columns: the one
\* of the first table block whose file exists and cannot be read ("" if none)
validate_and_fix_raises(content, schema_dir) ==
    LET tables == table_matches(content, 1)
        failing == {k \in 1..Len(tables) :
                        /\ ddl_file_exists(schema_dir, tables[k][1])
                        /\ ddl_file_read(schema_dir, tables[k][1]).raised # ""}
    IN  IF failing = {} THEN ""
        ELSE ddl_file_read(schema_dir,
                           tables[CHOOSE k \in failing : \A j \in failing : k <= j][1]).raised

\* lines 411-427: missing_columns of every table block of the document
missing_columns(content, schema_dir) ==
    LET tables == table_matches(content, 1)
        missing_of(m) ==
            IF ~ddl_file_exists(schema_dir, m[1]) THEN {}
            ELSE LET ddl_columns == extract_columns_from_ddl_file(
                                        ddl_file_text(schema_dir, m[1]))
                 IN  {ddl_columns[k].name : k \in 1..Len(ddl_columns)}
                     \ dbml_column_names(m[2])
    IN  UNION {missing_of(tables[k]) : k \in 1..Len(tables)}

-----------------------------------------------------------------------------
(* mysql_ddl_parser.py: MySQLDDLParser, the extractor for MySQL and MariaDB *)

\* the column dict of _parse_column_from_string (lines 442-448)
MySQLColumn(name, type, attributes, default, comment) ==
    [name |-> name, type |-> type, attributes |-> attributes, default |-> default,
     comment |-> comment]

\* _is_create_table_statement, from token i on
RECURSIVE is_create_table_statement(_, _, _)
is_create_table_statement(tokens, i, create_found) ==
    IF i > Len(tokens) THEN FALSE
    ELSE IF tokens[i].ttype \in {"Keyword", "Keyword.DDL"}
            /\ upper(tokens[i].value) = "CREATE"
    THEN is_create_table_statement(tokens, i + 1, TRUE)
    ELSE IF create_found /\ tokens[i].ttype \in {"Keyword", "Keyword.DDL"}
            /\ upper(tokens[i].value) = "TABLE"
    THEN TRUE
    ELSE IF create_found /\ tokens[i].ttype \in {"Keyword", "Keyword.DDL"}
            /\ upper(tokens[i].value)
                    \in {"PROCEDURE", "FUNCTION", "VIEW", "INDEX", "TRIGGER", "EVENT"}
    THEN FALSE
    ELSE is_create_table_statement(tokens, i + 1, create_found)

\* str(statement): the text of the statement
RECURSIVE statement_str(_)
statement_str(tokens) ==
    IF tokens = <<>> THEN "" ELSE Head(tokens).value \o statement_str(Tail(tokens))

\* the end of the first match of  COMMENT\s*q[^q]*q  that starts at p, for the
\* quote q, without regard to case (0 if there is no match at p)
comment_literal_end(s, quote, p) ==
    IF At(upper(s), p, "COMMENT") /\ At(s, skip_space(s, p + 7), quote)
    THEN find_from(s, quote, skip_space(s, p + 7) + 1) ELSE 0

\* lines 213 and 215: re.sub of the pattern by COMMENT qcommentq, from index
\* from on
RECURSIVE sub_comment(_, _, _)
sub_comment(s, quote, from) ==
    Let(First(LAMBDA p : comment_literal_end(s, quote, p) # 0, from, Len(s)), LAMBDA p :
        IF p = 0 THEN SubSeq(s, from, Len(s))
        ELSE SubSeq(s, from, p - 1) \o "COMMENT " \o quote \o "comment" \o quote
             \o sub_comment(s, quote, comment_literal_end(s, quote, p) + 1))

\* _preprocess_table_content
preprocess_table_content(table_content) ==
    sub_comment(sub_comment(table_content, "'", 1), "\"", 1)

\* lines 163-202: one turn of the loop over the characters of table_content
\* (quote_char "" is None)
simple_comma_split_step(table_content, i, st) ==
    Let(Ch(table_content, i), LAMBDA char :
    Let([st EXCEPT !.current_item = @ \o char], LAMBDA more :
        IF /\ ~st.in_comment
           /\ st.quote_char = ""
           /\ upper(SubSeq(table_content, i, Min(i + 6, Len(table_content)))) = "COMMENT"
        THEN IF /\ i + 7 <= Len(table_content)
                /\ Ch(table_content, i + 7) \in {" ", "\t", "'", "\""}
             THEN [more EXCEPT !.in_comment = TRUE] ELSE more
        ELSE IF char \in {"'", "\""} /\ (i = 1 \/ Ch(table_content, i - 1) # "\\")
        THEN IF st.quote_char = "" THEN [more EXCEPT !.quote_char = char]
             ELSE IF st.quote_char = char
             THEN [more EXCEPT !.quote_char = "", !.in_comment = FALSE]
             ELSE more
        ELSE IF char = "(" /\ st.quote_char = "" THEN [more EXCEPT !.paren_depth = @ + 1]
        ELSE IF char = ")" /\ st.quote_char = "" THEN [more EXCEPT !.paren_depth = @ - 1]
        ELSE IF char = "," /\ st.quote_char = "" /\ st.paren_depth = 0 /\ ~st.in_comment
        THEN [st EXCEPT !.items = with_item(@, st.current_item), !.current_item = ""]
        ELSE more))

\* _simple_comma_split
simple_comma_split(table_content) ==
    Let(Scan(simple_comma_split_step, table_content, 1, Len(table_content),
             [in_comment |-> FALSE, quote_char |-> "", paren_depth |-> 0,
              current_item |-> "", items |-> <<>>]), LAMBDA st :
        with_item(st.items, st.current_item))

\* lines 637-661: one turn of the loop over the characters of text
smart_comma_split_step(text, i, st) ==
    Let(Ch(text, i), LAMBDA char :
    Let([st EXCEPT !.current_part = @ \o char], LAMBDA more :
        IF char \in {"'", "\""} /\ (i = 1 \/ Ch(text, i - 1) # "\\")
        THEN IF st.quote_char = "" THEN [more EXCEPT !.quote_char = char]
             ELSE IF st.quote_char = char THEN [more EXCEPT !.quote_char = ""]
             ELSE more
        ELSE IF st.quote_char = "" /\ char = "(" THEN [more EXCEPT !.paren_depth = @ + 1]
        ELSE IF st.quote_char = "" /\ char = ")" THEN [more EXCEPT !.paren_depth = @ - 1]
        ELSE IF st.quote_char = "" /\ char = "," /\ st.paren_depth = 0
        THEN [st EXCEPT !.parts = Append(@, strip(st.current_part)), !.current_part = ""]
        ELSE more))

\* _smart_comma_split
smart_comma_split(text) ==
    Let(Scan(smart_comma_split_step, text, 1, Len(text),
             [quote_char |-> "", paren_depth |-> 0, current_part |-> "", parts |-> <<>>]),
        LAMBDA st : with_item(st.parts, st.current_part))

\* _is_functional_index
is_functional_index(part) ==
    \/ \E func \in {"replace", "right", "left", "substr", "substring", "concat", "upper",
                    "lower", "date_format", "year", "month", "day"} :
            Contains(lower(part), func)
    \/ Contains(part, "_utf8mb3")
    \/ Contains(part, "_utf8mb4")
    \/ /\ Contains(part, "(")
       /\ (Contains(part, BT) \/ Contains(part, ":") \/ Contains(part, "%"))

\* line 619: re.sub(r'\s+(ASC|DESC)\s*$', '', part) without regard to case
without_order(part) ==
    Let(rstrip(part), LAMBDA text :
    Let(IF endswith(upper(text), "DESC") THEN Len(text) - 4
        ELSE IF endswith(upper(text), "ASC") THEN Len(text) - 3
        ELSE 0, LAMBDA e :
        IF e >= 1 /\ IsSpaceCh(Ch(text, e)) THEN rstrip(SubSeq(text, 1, e)) ELSE part))

\* lines 580-587: one turn of the loop that looks for the balancing parenthesis
balanced_step(item, i, st) ==
    IF st.end_idx # 0 THEN st
    ELSE IF Ch(item, i) = "(" THEN [st EXCEPT !.paren_count = @ + 1]
    ELSE IF Ch(item, i) = ")"
    THEN [paren_count |-> st.paren_count - 1,
          end_idx |-> IF st.paren_count - 1 = 0 THEN i ELSE 0]
    ELSE st

\* lines 600-625: the column name of one part of an index, <<>> when the part
\* is dropped
index_part_column(part) ==
    IF is_functional_index(strip(part)) \/ strip(part) \in {"", "10)", "'", "\""} THEN <<>>
    ELSE Let(clean_identifier(strip(without_order(without_lengths(strip(part))))),
             LAMBDA col_name : IF col_name # "" THEN <<col_name>> ELSE <<>>)

RECURSIVE index_part_columns(_)
index_part_columns(parts) ==
    IF parts = <<>> THEN <<>>
    ELSE index_part_column(Head(parts)) \o index_part_columns(Tail(parts))

\* _extract_columns_from_string
extract_columns_from_string(item) ==
    Let(find(item, "("), LAMBDA start_idx :
        IF start_idx = 0 THEN <<>>
        ELSE Let(Scan(balanced_step, item, start_idx, Len(item),
                      [paren_count |-> 0, end_idx |-> 0]).end_idx, LAMBDA end_idx :
                 IF end_idx = 0 THEN <<>>
                 ELSE index_part_columns(
                        smart_comma_split(SubSeq(item, start_idx + 1, end_idx - 1)))))

\* [self._clean_identifier(col.strip()) for col in group.split(',')]
cleaned_columns(group) ==
    Let(split(group, ","), LAMBDA parts :
        [k \in 1..Len(parts) |-> clean_identifier(strip(parts[k]))])

\* _parse_foreign_key_from_string: <<the constraint>>, <<>> for None
parse_foreign_key_from_string(item) ==
    Let(foreign_key_search(item, 1, TRUE), LAMBDA match :
        IF match = <<>> THEN <<>>
        ELSE <<ForeignKey(cleaned_columns(match[1]), clean_identifier(match[2]),
                          cleaned_columns(match[3]))>>)

\* _parse_constraint_from_string: <<the constraint>>, <<>> for None
parse_constraint_from_string(item) ==
    Let(upper(item), LAMBDA item_upper :
    Let(extract_columns_from_string(item), LAMBDA columns :
        IF Contains(item_upper, "PRIMARY KEY") /\ columns # <<>>
        THEN <<Constraint("primary_key", columns)>>
        ELSE IF Contains(item_upper, "FOREIGN KEY")
        THEN parse_foreign_key_from_string(item)
        ELSE IF /\ Contains(item_upper, "UNIQUE KEY") \/ Contains(item_upper, "UNIQUE INDEX")
                /\ ~Contains(item_upper, "FOREIGN")
                /\ columns # <<>>
        THEN <<Constraint("unique", columns)>>
        ELSE IF /\ Contains(item_upper, "FULLTEXT KEY")
                   \/ Contains(item_upper, "FULLTEXT INDEX")
                /\ columns # <<>>
        THEN <<Constraint("fulltext", columns)>>
        ELSE IF /\ \/ startswith(strip(item_upper), "KEY ")
                   \/ startswith(strip(item_upper), "INDEX ")
                   \/ Contains(item_upper, " KEY ")
                   \/ Contains(item_upper, " INDEX ")
                /\ ~Contains(item_upper, "FOREIGN")
                /\ ~Contains(item_upper, "PRIMARY")
                /\ ~Contains(item_upper, "UNIQUE")
                /\ ~Contains(item_upper, "FULLTEXT")
                /\ columns # <<>>
        THEN <<Constraint("index", columns)>>
        ELSE <<>>))

\* lines 467-486: one turn of the loop that looks for the parenthesis that
\* closes the values of an ENUM or SET
enum_values_step(item, i, st) ==
    IF st.end_idx # 0 THEN st
    ELSE IF Ch(item, i) \in {"'", "\""} /\ (i = 1 \/ Ch(item, i - 1) # "\\")
    THEN IF st.quote_char = "" THEN [st EXCEPT !.quote_char = Ch(item, i)]
         ELSE IF st.quote_char = Ch(item, i) THEN [st EXCEPT !.quote_char = ""]
         ELSE st
    ELSE IF st.quote_char = "" /\ Ch(item, i) = "("
    THEN [st EXCEPT !.bracket_count = @ + 1]
    ELSE IF st.quote_char = "" /\ Ch(item, i) = ")"
    THEN [st EXCEPT !.bracket_count = @ - 1,
                    !.end_idx = IF st.bracket_count - 1 = 0 THEN i ELSE 0]
    ELSE st

\* _extract_enum_values(item, base_type)
extract_enum_values(item, base_type) ==
    Let(find(upper(item), upper(base_type)), LAMBDA type_start :
    Let(IF type_start = 0 THEN 0 ELSE find_from(item, "(", type_start), LAMBDA paren_start :
        IF paren_start = 0 THEN None
        ELSE Let(Scan(enum_values_step, item, paren_start, Len(item),
                      [quote_char |-> "", bracket_count |-> 0, end_idx |-> 0]).end_idx,
                 LAMBDA end_idx :
                 IF end_idx = 0 THEN None
                 ELSE Some(SubSeq(item, paren_start + 1, end_idx - 1)))))

\* the first index >= i whose character is neither a backquote nor a word
\* character (the end of [`\w]+)
RECURSIVE skip_quoted_word(_, _)
skip_quoted_word(s, i) ==
    IF i <= Len(s) /\ (Ch(s, i) = BT \/ IsWordCh(Ch(s, i)))
    THEN skip_quoted_word(s, i + 1) ELSE i

\* lines 404-409: the parenthesis group that follows the first whole-word
\* occurrence of base_type in item, "" when there is none
type_group(item, base_type) ==
    Let(upper(item), LAMBDA U :
    Let(First(LAMBDA p : /\ At(U, p, base_type)
                         /\ word_boundary(item, p)
                         /\ word_boundary(item, p + Len(base_type)), 1, Len(item)),
        LAMBDA p :
    Let(IF p # 0 /\ At(item, p + Len(base_type), "(")
        THEN find_from(item, ")", p + Len(base_type) + 1) ELSE 0, LAMBDA close :
        IF close # 0 THEN SubSeq(item, p + Len(base_type), close) ELSE "")))

\* lines 396-409: the data type of the column
column_data_type(item, base_type) ==
    IF base_type \in {"ENUM", "SET"}
    THEN Let(extract_enum_values(item, base_type), LAMBDA size_info :
             IF size_info # None /\ size_info[1] # ""
             THEN base_type \o "(" \o size_info[1] \o ")" ELSE base_type)
    ELSE base_type \o type_group(item, base_type)

\* the group of  word\s+['"]([^'"]*)['"]  when it matches at index p of s,
\* <<>> when it does not; U is s in upper case
quoted_value_at(s, U, word, p) ==
    Let(skip_space(s, p + Len(word)), LAMBDA w :
    Let(First(LAMBDA j : Ch(s, j) \in {"'", "\""}, w + 1, Len(s)), LAMBDA close :
        IF /\ At(U, p, word)
           /\ w > p + Len(word)
           /\ w <= Len(s)
           /\ Ch(s, w) \in {"'", "\""}
           /\ close # 0
        THEN <<SubSeq(s, w + 1, close - 1)>> ELSE <<>>))

\* lines 428 and 438: the group of the first match in s, <<>> if there is none
quoted_value(s, word) ==
    Let(upper(s), LAMBDA U :
    Let(First(LAMBDA p : quoted_value_at(s, U, word, p) # <<>>, 1, Len(s)), LAMBDA p :
        IF p = 0 THEN <<>> ELSE quoted_value_at(s, U, word, p)))

\* the group of  DEFAULT\s+([^,\s]+)  when it matches at index p of s
bare_default_at(s, U, p) ==
    Let(skip_space(s, p + 7), LAMBDA w :
        IF At(U, p, "DEFAULT") /\ w > p + 7 /\ w <= Len(s) /\ Ch(s, w) # ","
        THEN <<SubSeq(s, w, skip_value(s, w) - 1)>> ELSE <<>>)

\* line 433: the group of the first match in s, <<>> if there is none
bare_default(s) ==
    Let(upper(s), LAMBDA U :
    Let(First(LAMBDA p : bare_default_at(s, U, p) # <<>>, 1, Len(s)), LAMBDA p :
        IF p = 0 THEN <<>> ELSE bare_default_at(s, U, p)))

\* lines 418-425: the attributes of the column
column_attribute_names(item_upper) ==
    (IF Contains(item_upper, "NOT NULL") THEN <<"not null">> ELSE <<>>)
    \o (IF Contains(item_upper, "AUTO_INCREMENT") THEN <<"increment">> ELSE <<>>)
    \o (IF Contains(item_upper, "PRIMARY KEY") THEN <<"pk">> ELSE <<>>)
    \o (IF Contains(item_upper, "UNIQUE") /\ ~Contains(item_upper, "UNIQUE KEY")
        THEN <<"unique">> ELSE <<>>)

\* lines 428-435: the default value of the column
column_default(item) ==
    Let(quoted_value(item, "DEFAULT"), LAMBDA quoted :
        IF quoted # <<>> THEN Some("'" \o quoted[1] \o "'") ELSE bare_default(item))

\* _parse_column_from_string: <<the column dict>>, <<>> for None
parse_column_from_string(item) ==
    Let(strip(item), LAMBDA item_stripped :
    Let(skip_quoted_word(item_stripped, 1), LAMBDA n1 :
    Let(skip_space(item_stripped, n1), LAMBDA t0 :
    Let(skip_word(item_stripped, t0), LAMBDA t1 :
        IF \/ startswith(upper(item_stripped), "PARTITION ")
           \/ n1 = 1
           \/ t0 = n1
           \/ t1 = t0
        THEN <<>>
        ELSE <<MySQLColumn(clean_identifier(SubSeq(item_stripped, 1, n1 - 1)),
                           column_data_type(item, upper(SubSeq(item_stripped, t0, t1 - 1))),
                           column_attribute_names(upper(item)),
                           column_default(item),
                           quoted_value(item, "COMMENT"))>>))))

\* lines 237-250: the items sorted into constraints and columns
RECURSIVE mysql_classify_items(_, _, _)
mysql_classify_items(items, k, acc) ==
    IF k > Len(items) THEN acc
    ELSE IF strip(items[k]) = "" THEN mysql_classify_items(items, k + 1, acc)
    ELSE Let(parse_constraint_from_string(strip(items[k])), LAMBDA constraint :
             IF constraint # <<>>
             THEN mysql_classify_items(items, k + 1,
                    [acc EXCEPT !.constraints = @ \o constraint])
             ELSE mysql_classify_items(items, k + 1,
                    [acc EXCEPT !.columns = @ \o parse_column_from_string(strip(items[k]))]))

\* MySQLDDLParser._parse_table_definition_from_string(content)
mysql_parse_table_definition_from_string(content) ==
    Let(find(content, "("), LAMBDA start :
    Let(rfind(content, ")"), LAMBDA end :
        IF start = 0 \/ end = 0 THEN NoRecords
        ELSE mysql_classify_items(
                simple_comma_split(
                    preprocess_table_content(SubSeq(content, start + 1, end - 1))),
                1, NoRecords)))

\* MySQLDDLParser._parse_create_table(statement): <<the table dict>>, <<>> for
\* None; the loop that finds the name is the one of DDLParser
mysql_parse_create_table(statement) ==
    Let(table_name_of(statement, 1, FALSE, FALSE), LAMBDA table_name :
    Let(table_content_token(statement, 1), LAMBDA big :
        IF table_name = "" THEN <<>>
        ELSE Let(mysql_parse_table_definition_from_string(
                    IF big # 0 THEN statement[big].value ELSE statement_str(statement)),
                 LAMBDA records :
                 <<Table(table_name, records.columns, records.constraints)>>)))

\* lines 61-67: the tables of the CREATE TABLE statements, in their order
RECURSIVE mysql_tables_of_statements(_, _)
mysql_tables_of_statements(statements, table_info) ==
    IF statements = <<>> THEN table_info
    ELSE mysql_tables_of_statements(Tail(statements),
            IF /\ get_type(Head(statements)) = "CREATE"
               /\ is_create_table_statement(Head(statements), 1, FALSE)
            THEN dict_update(table_info, mysql_parse_create_table(Head(statements)))
            ELSE table_info)

\* MySQLDDLParser.parse_ddl_content(content)
mysql_parse_ddl_content(content) ==
    mysql_tables_of_statements(sqlparse_parse(content), <<>>)

-----------------------------------------------------------------------------
(* postgresql_ddl_parser.py: PostgreSQLDDLParser, the extractor for        *)
(* PostgreSQL                                                              *)

\* lines 20-69
postgresql_type_mapping ==
    [t \in {"character varying", "character", "varchar", "char", "text", "integer",
            "int", "int4", "bigint", "int8", "smallint", "int2", "decimal", "numeric",
            "real", "float4", "double precision", "float8", "serial", "bigserial",
            "smallserial", "boolean", "bool", "date", "time", "time without time zone",
            "time with time zone", "timestamp", "timestamp without time zone",
            "timestamp with time zone", "interval", "uuid", "json", "jsonb", "xml",
            "bytea", "inet", "cidr", "macaddr", "point", "line", "lseg", "box", "path",
            "polygon", "circle", "money", "regclass"} |->
        CASE t = "character varying" -> "VARCHAR"
          [] t = "character" -> "CHAR"
          [] t = "integer" -> "INT"
          [] t = "int4" -> "INT"
          [] t = "int8" -> "BIGINT"
          [] t = "int2" -> "SMALLINT"
          [] t = "numeric" -> "DECIMAL"
          [] t = "float4" -> "REAL"
          [] t = "double precision" -> "DOUBLE"
          [] t = "float8" -> "DOUBLE"
          [] t = "bool" -> "BOOLEAN"
          [] t = "time without time zone" -> "TIME"
          [] t = "time with time zone" -> "TIMETZ"
          [] t = "timestamp without time zone" -> "TIMESTAMP"
          [] t = "timestamp with time zone" -> "TIMESTAMPTZ"
          [] OTHER -> upper(t)]

\* the characters that _clean_identifier strips
QuoteChars == "\"'" \o BT

\* _clean_identifier (lines 113-124)
postgresql_clean_identifier(identifier) ==
    Let(strip_chars(identifier, QuoteChars), LAMBDA cleaned :
        IF Contains(cleaned, ".") /\ Len(split(cleaned, ".")) = 2
        THEN strip_chars(split(cleaned, ".")[2], QuoteChars)
        ELSE cleaned)

\* lines 159-188: one turn of the loop over the characters of content
split_table_items_step(content, i, st) ==
    Let(Ch(content, i), LAMBDA char :
    Let([st EXCEPT !.current_item = @ \o char], LAMBDA more :
        IF char \in {"\"", "'"} /\ (i = 1 \/ Ch(content, i - 1) # "\\")
        THEN IF st.quote_char = "" THEN [more EXCEPT !.quote_char = char]
             ELSE IF st.quote_char = char THEN [more EXCEPT !.quote_char = ""]
             ELSE more
        ELSE IF st.quote_char = ""
        THEN IF char = "(" THEN [more EXCEPT !.paren_depth = @ + 1]
             ELSE IF char = ")" THEN [more EXCEPT !.paren_depth = @ - 1]
             ELSE IF char = "," /\ st.paren_depth = 0
             THEN [st EXCEPT !.items = with_item(@, st.current_item), !.current_item = ""]
             ELSE more
        ELSE more))

\* _split_table_items (lines 151-194)
split_table_items(content) ==
    Let(Scan(split_table_items_step, content, 1, Len(content),
             [quote_char |-> "", paren_depth |-> 0, current_item |-> "", items |-> <<>>]),
        LAMBDA st : with_item(st.items, st.current_item))

\* str.split() of the words of s from index i on
RECURSIVE words_from(_, _)
words_from(s, i) ==
    Let(skip_space(s, i), LAMBDA start :
        IF start > Len(s) THEN <<>>
        ELSE Let(First(LAMBDA j : j > Len(s) \/ IsSpaceCh(Ch(s, j)), start, Len(s) + 1),
                 LAMBDA end : <<SubSeq(s, start, end - 1)>> \o words_from(s, end)))

\* lines 213-220: the number of words of the data type, which ends before the
\* first word of parts, after the name, that starts an attribute
RECURSIVE type_words(_, _)
type_words(parts, i) ==
    IF i > Len(parts)
       \/ upper(parts[i]) \in {"NOT", "NULL", "DEFAULT", "PRIMARY", "UNIQUE", "REFERENCES",
                               "CHECK"}
    THEN 0
    ELSE 1 + type_words(parts, i + 1)

\* _normalize_postgresql_type (lines 261-281): the match of ^([^(]+)(\(.+\))?$
\* has a name before the first parenthesis and after it nothing, or a group
\* that is closed at the end of the string
normalize_postgresql_type(data_type) ==
    Let(strip(lower(data_type)), LAMBDA data_type_lower :
    Let(find(data_type_lower, "("), LAMBDA open :
        IF open = 0
        THEN IF data_type_lower # ""
             THEN Get(postgresql_type_mapping, strip(data_type_lower), data_type)
             ELSE data_type
        ELSE IF open > 1 /\ Len(data_type_lower) >= open + 2 /\ endswith(data_type_lower, ")")
        THEN Let(strip(SubSeq(data_type_lower, 1, open - 1)), LAMBDA base_type :
                IF base_type \in DOMAIN postgresql_type_mapping
                THEN postgresql_type_mapping[base_type]
                     \o SubSeq(data_type_lower, open, Len(data_type_lower))
                ELSE data_type)
        ELSE data_type))

\* line 242: the first match of DEFAULT\s+([^,\s]+(?:\([^)]*\))?) in item, from
\* index p on: the group, None when there is no match; the group is the run
\* of characters up to the next comma or white space
postgresql_default_match(item, p) ==
    Let(First(LAMBDA i : /\ AtWord(item, i, "DEFAULT")
                         /\ skip_space(item, i + 7) > i + 7
                         /\ skip_space(item, i + 7) <= Len(item)
                         /\ Ch(item, skip_space(item, i + 7)) # ",",
              p, Len(item) - 8), LAMBDA at :
        IF at = 0 THEN None
        ELSE Let(skip_space(item, at + 7), LAMBDA start :
             Let(First(LAMBDA j : j > Len(item) \/ IsSpaceCh(Ch(item, j)) \/ Ch(item, j) = ",",
                       start, Len(item) + 1), LAMBDA end :
                Some(SubSeq(item, start, end - 1)))))

\* _parse_postgresql_column (lines 196-259)
parse_postgresql_column(item_) ==
    Let(strip(item_), LAMBDA item :
    Let(words_from(item, 1), LAMBDA parts :
        IF Len(parts) < 2 THEN None
        ELSE Let(type_words(parts, 2), LAMBDA n :
             Let(upper(join(" ", SubSeq(parts, 2 + n, Len(parts)))), LAMBDA remaining_text :
             Let(postgresql_default_match(item, 1), LAMBDA default_match_ :
             Let(default_match_ # None /\ upper(default_match_[1]) # "CURRENT_TIMESTAMP"
                 /\ Contains(lower(default_match_[1]), "nextval("), LAMBDA is_nextval :
                Some(MySQLColumn(
                    postgresql_clean_identifier(parts[1]),
                    normalize_postgresql_type(join(" ", SubSeq(parts, 2, 1 + n))),
                    (IF Contains(remaining_text, "NOT NULL") THEN <<"not null">> ELSE <<>>)
                    \o (IF Contains(remaining_text, "PRIMARY KEY") THEN <<"pk">> ELSE <<>>)
                    \o (IF Contains(remaining_text, "UNIQUE") THEN <<"unique">> ELSE <<>>)
                    \o (IF is_nextval THEN <<"increment">> ELSE <<>>),
                    IF is_nextval THEN None ELSE default_match_,
                    None))))))))

\* _extract_columns_from_string (lines 333-342): the names in the first group
\* \(([^)]+)\) of item
postgresql_extract_columns_from_string(item) ==
    Let(First(LAMBDA i : /\ Ch(item, i) = "("
                         /\ find_from(item, ")", i + 1) > i + 1, 1, Len(item)), LAMBDA open :
        IF open = 0 THEN <<>>
        ELSE Let(split(SubSeq(item, open + 1, find_from(item, ")", open + 1) - 1), ","),
                 LAMBDA cols :
                SelectSeq([k \in 1..Len(cols) |-> postgresql_clean_identifier(strip(cols[k]))],
                          LAMBDA col : col # "")))

\* the groups (?:(\w+)\.)?(?:")?(\w+)(?:")? at index i of s: the schema (None
\* when there is none), the name and the index after them, <<>> when the
\* pattern does not match there
qualified_name_at(s, i) ==
    Let(skip_word(s, i), LAMBDA e :
    Let(IF e > i /\ At(s, e, ".") THEN <<Some(SubSeq(s, i, e - 1)), e + 1>> ELSE <<None, i>>,
        LAMBDA schema :
    Let(IF At(s, schema[2], "\"") THEN schema[2] + 1 ELSE schema[2], LAMBDA start :
    Let(skip_word(s, start), LAMBDA end :
        IF end > start
        THEN <<schema[1], SubSeq(s, start, end - 1),
               IF At(s, end, "\"") THEN end + 1 ELSE end>>
        ELSE <<>>))))

\* _parse_postgresql_foreign_key (lines 311-331): the first match of the
\* pattern of line 314 in item
postgresql_foreign_key_at(item, i) ==
    IF ~AtWord(item, i, "FOREIGN") \/ skip_space(item, i + 7) = i + 7 THEN <<>>
    ELSE Let(skip_space(item, i + 7), LAMBDA key :
        IF ~AtWord(item, key, "KEY") THEN <<>>
        ELSE Let(skip_space(item, key + 3), LAMBDA open :
        Let(find_from(item, ")", open + 1), LAMBDA close :
            IF ~At(item, open, "(") \/ close <= open + 1
               \/ skip_space(item, close + 1) = close + 1
            THEN <<>>
            ELSE Let(skip_space(item, close + 1), LAMBDA ref :
                IF ~AtWord(item, ref, "REFERENCES")
                   \/ skip_space(item, ref + 10) = ref + 10
                THEN <<>>
                ELSE Let(qualified_name_at(item, skip_space(item, ref + 10)), LAMBDA name :
                    IF name = <<>> THEN <<>>
                    ELSE Let(skip_space(item, name[3]), LAMBDA ref_open :
                         Let(find_from(item, ")", ref_open + 1), LAMBDA ref_close :
                            IF ~At(item, ref_open, "(") \/ ref_close <= ref_open + 1 THEN <<>>
                            ELSE <<SubSeq(item, open + 1, close - 1), name[1], name[2],
                                   SubSeq(item, ref_open + 1, ref_close - 1)>>)))))))

\* the cleaned names of a list of columns
postgresql_cleaned_columns(group) ==
    [k \in 1..Len(split(group, ",")) |->
        postgresql_clean_identifier(strip(split(group, ",")[k]))]

postgresql_foreign_key(item) ==
    Let(First(LAMBDA i : postgresql_foreign_key_at(item, i) # <<>>, 1, Len(item)), LAMBDA at :
        IF at = 0 THEN None
        ELSE Let(postgresql_foreign_key_at(item, at), LAMBDA match :
                Some([type |-> "foreign_key",
                      columns |-> postgresql_cleaned_columns(match[1]),
                      ref_table |-> postgresql_clean_identifier(match[3]),
                      ref_columns |-> postgresql_cleaned_columns(match[4]),
                      ref_schema |-> match[2]])))

\* _parse_postgresql_constraint (lines 283-309)
parse_postgresql_constraint(item) ==
    Let(upper(item), LAMBDA item_upper :
    Let(postgresql_extract_columns_from_string(item), LAMBDA columns :
        IF /\ Contains(item_upper, "PRIMARY KEY") /\ Contains(item_upper, "CONSTRAINT")
           /\ columns # <<>>
        THEN Some(Constraint("primary_key", columns))
        ELSE IF Contains(item_upper, "FOREIGN KEY") /\ Contains(item_upper, "REFERENCES")
        THEN postgresql_foreign_key(item)
        ELSE IF /\ Contains(item_upper, "UNIQUE") /\ Contains(item_upper, "CONSTRAINT")
                /\ columns # <<>>
        THEN Some(Constraint("unique", columns))
        ELSE None))

\* lines 134-147: the items from the k-th on are added to the records
RECURSIVE postgresql_classify_items(_, _, _)
postgresql_classify_items(items, k, acc) ==
    IF k > Len(items) THEN acc
    ELSE Let(strip(items[k]), LAMBDA item :
         Let(IF item = "" THEN None ELSE parse_postgresql_constraint(item), LAMBDA constraint :
         Let(IF item = "" \/ constraint # None THEN None ELSE parse_postgresql_column(item),
             LAMBDA column :
            postgresql_classify_items(items, k + 1,
                IF constraint # None
                THEN [acc EXCEPT !.constraints = Append(@, constraint[1])]
                ELSE IF column # None
                THEN [acc EXCEPT !.columns = Append(@, column[1])]
                ELSE acc))))

\* _parse_postgresql_table_content (lines 126-149)
parse_postgresql_table_content(content) ==
    postgresql_classify_items(split_table_items(content), 1, NoRecords)

\* the match of the pattern of line 77 that starts at index p of content:
\* <<schema, table name, table content, the index after the match>>, <<>> if
\* there is none
create_table_at(content, p) ==
    IF ~AtWord(content, p, "CREATE") \/ skip_space(content, p + 6) = p + 6
    THEN <<>>
    ELSE Let(skip_space(content, p + 6), LAMBDA table :
        IF ~AtWord(content, table, "TABLE")
           \/ skip_space(content, table + 5) = table + 5
        THEN <<>>
        ELSE Let(qualified_name_at(content, skip_space(content, table + 5)), LAMBDA name :
            IF name = <<>> THEN <<>>
            ELSE Let(skip_space(content, name[3]), LAMBDA open :
                 Let(find_from(content, ");", open + 1), LAMBDA close :
                    IF ~At(content, open, "(") \/ close = 0 THEN <<>>
                    ELSE <<name[1], name[2], SubSeq(content, open + 1, close - 1),
                           close + 2>>))))

\* lines 80-97: the tables of the matches from index p on
RECURSIVE postgresql_tables_from(_, _, _)
postgresql_tables_from(content, p, table_info) ==
    Let(First(LAMBDA i : create_table_at(content, i) # <<>>, p, Len(content)), LAMBDA at :
        IF at = 0 THEN table_info
        ELSE Let(create_table_at(content, at), LAMBDA match :
             Let(parse_postgresql_table_content(match[3]), LAMBDA records :
                postgresql_tables_from(content, match[4],
                    IF records.columns # <<>>
                    THEN dict_set(table_info,
                            [name |-> postgresql_clean_identifier(match[2]),
                             schema |-> match[1],
                             columns |-> records.columns,
                             constraints |-> records.constraints])
                    ELSE table_info))))

\* PostgreSQLDDLParser.parse_ddl_content(content)
postgresql_parse_ddl_content(content) == postgresql_tables_from(content, 1, <<>>)

-----------------------------------------------------------------------------
(* Bounds of the inputs                                                    *)

MaxColumns == 2
MaxConstraints == 2
MaxDefaultLen == 5
MaxItems == 2
MaxPasses == 2
MaxTail == 2

-----------------------------------------------------------------------------
(* Specification SpecLiteral: the serializer on one column with a default  *)

DefaultAlphabet == {"0", "2", "5", "6", ".", "-"}

RECURSIVE StringsUpTo(_, _)
StringsUpTo(chars, n) ==
    IF n = 0 THEN {""}
    ELSE LET shorter == StringsUpTo(chars, n - 1)
         IN  shorter \cup {s \o c : s \in shorter, c \in chars}

NamedDefaults ==
    {"CURRENT_TIMESTAMP", "current_timestamp", "NULL", "null",
     "0000-00-00", "2024-01-15", "0000-00-00 00:00:00", "00:00:00", "12:30",
     "0.0.0.0", "192.168.1.1", "255.255.255.255", "256.1.1.1", "1.2.3.4.5",
     "10.5", "1000.25", "0.00", "1e5", "-1",
     "true", "false", "TRUE", "False", "tRuE", "truth",
     "abc", "it's", "a\\b", "N", "Y", "0000-00-0a"}

DefaultPool == StringsUpTo(DefaultAlphabet, MaxDefaultLen) \cup NamedDefaults

default_column(default_value) ==
    Column("c", "VARCHAR", Some("32"), TRUE, FALSE, FALSE, FALSE, Some(default_value))

InitLiteral ==
    /\ pc = "literal"
    /\ raw_default \in DefaultPool
    /\ column_line = ""
    /\ tables_data = <<>>
    /\ tables_in = <<>>
    /\ schema_name = None
    /\ dbml = ""
    /\ ddl_files = <<>>
    /\ parsed = 0
    /\ passes = 0
    /\ dbml_before = ""
    /\ ddl_parser = ""
    /\ errors = <<>>
    /\ file_content = None
    /\ schema_dir_exists = TRUE

\* _convert_column_to_dbml on a column whose default is raw_default
SerializeDefault ==
    /\ pc = "literal"
    /\ column_line' = convert_column_to_dbml(default_column(raw_default))
    /\ pc' = "literal_done"
    /\ UNCHANGED <<tables_data, tables_in, schema_name, dbml, raw_default,
                   ddl_files, parsed, passes, dbml_before, ddl_parser, errors,
                   file_content, schema_dir_exists>>

\* the record of _extract_columns_from_ddl_file for a column whose default is
\* default_value
missing_default_column(default_value) ==
    [name |-> "c", type |-> "VARCHAR(32)", nullable |-> TRUE, auto_increment |-> FALSE,
     default |-> Some(default_value)]

\* the line that validate_and_fix_missing_columns writes for that column when
\* the document lacks it; dbml holds the line
ReconcileDefault ==
    /\ pc = "literal_done"
    /\ dbml' = missing_col_definition(missing_default_column(raw_default))
    /\ pc' = "literal_reconciled"
    /\ UNCHANGED <<tables_data, tables_in, schema_name, raw_default, column_line,
                   ddl_files, parsed, passes, dbml_before, ddl_parser, errors,
                   file_content, schema_dir_exists>>

NextLiteral == SerializeDefault \/ ReconcileDefault

SpecLiteral == InitLiteral /\ [][NextLiteral]_vars

-----------------------------------------------------------------------------
(* Specification SpecSerializer: convert_tables_to_dbml on a table mapping *)

\* one column with every combination of its flags ...
FlagColumns ==
    {Column(n, ts[1], ts[2], nl, ai, pk, uq, d) :
        n \in {"id", "Val"},
        ts \in {<<"BIGINT", Some("20")>>},
        nl \in BOOLEAN, ai \in BOOLEAN, pk \in BOOLEAN, uq \in BOOLEAN,
        d \in {None, Some("0")}}

\* ... followed by up to MaxColumns - 1 of these
TailColumns ==
    {PlainColumn("beginPit", "INT"),
     Column("ID", "Geometry", None, FALSE, FALSE, FALSE, TRUE, None)}

FlagConstraints ==
    {<<>>,
     <<Constraint("primary_key", <<"ID">>)>>,
     <<Constraint("primary_key", <<"id", "val">>)>>,
     <<Constraint("unique", <<"VAL">>)>>,
     <<Constraint("primary_key", <<"other">>), Constraint("index", <<"id", "missing">>)>>}

FlagMappings ==
    {<<Table("t", <<c>> \o tail, cons)>> :
        c \in FlagColumns, tail \in SeqsOf(TailColumns, 0, MaxColumns - 1),
        cons \in FlagConstraints}

OrdersColumns ==
    <<PlainColumn("id", "BIGINT"), PlainColumn("beginPit", "INT"),
      PlainColumn("user_id", "BIGINT")>>

UsersColumns == <<PlainColumn("Id", "BIGINT"), PlainColumn("Name", "VARCHAR")>>

ConstraintPool ==
    {Constraint("primary_key", <<"id">>),
     Constraint("unique", <<"USER_ID", "BeginPit">>),
     Constraint("index", <<"BEGINPIT">>),
     Constraint("fulltext", <<"beginPit">>),
     ForeignKey(<<"USER_ID">>, "users", <<"ID">>),
     ForeignKey(<<"user_id">>, "USERS", <<"id">>),
     ForeignKey(<<"user_id", "beginpit">>, "users", <<"id", "name">>),
     ForeignKey(<<"id", "user_id">>, "Accounts", <<"a", "B">>),
     ForeignKey(<<"id", "user_id">>, "users", <<"id">>)}

UsersConstraints ==
    {<<>>, <<ForeignKey(<<"id">>, "orders", <<"ID">>), Constraint("index", <<"NAME">>)>>}

ConstraintMappings ==
    UNION {{<<Table("orders", OrdersColumns, cons)>>,
            <<Table("Users", UsersColumns, <<>>), Table("orders", OrdersColumns, cons)>>}
           \cup {<<Table("orders", OrdersColumns, cons), Table("Users", UsersColumns, u)>> :
                    u \in UsersConstraints} :
           cons \in SeqsOf(ConstraintPool, 0, MaxConstraints)}

\* two tables whose foreign keys ask for the same line text
SameLineMappings ==
    {<<Table("s", <<PlainColumn("t.c", "INT")>>, <<ForeignKey(<<"t.c">>, "users", <<"id">>)>>),
       Table("s.t", <<PlainColumn("c", "INT")>>, <<ForeignKey(<<"c">>, "users", <<"id">>)>>)>>}

SerializerInputs == FlagMappings \cup ConstraintMappings \cup SameLineMappings

InitSerializer ==
    /\ pc = "serialize"
    /\ tables_data \in SerializerInputs
    /\ tables_in = tables_data
    /\ schema_name \in IF Len(tables_data) = 1 THEN {None, Some("shop")} ELSE {Some("shop")}
    /\ dbml = ""
    /\ raw_default = ""
    /\ column_line = ""
    /\ ddl_files = <<>>
    /\ parsed = 0
    /\ passes = 0
    /\ dbml_before = ""
    /\ ddl_parser = ""
    /\ errors = <<>>
    /\ file_content = None
    /\ schema_dir_exists = TRUE

\* convert_tables_to_dbml(tables_data, schema_name)
ConvertTables ==
    /\ pc = "serialize"
    /\ dbml' = convert_tables_to_dbml(tables_data, schema_name)
    /\ tables_data' = tables_after_convert(tables_data)
    /\ pc' = "serialized"
    /\ UNCHANGED <<tables_in, schema_name, raw_default, column_line,
                   ddl_files, parsed, passes, dbml_before, ddl_parser, errors,
                   file_content, schema_dir_exists>>

\* convert_tables_to_dbml a second time, on the mapping the first call left;
\* dbml_before keeps the text of the first call
ConvertTablesAgain ==
    /\ pc = "serialized"
    /\ ddl_files = <<>>
    /\ dbml_before' = dbml
    /\ dbml' = convert_tables_to_dbml(tables_data, schema_name)
    /\ tables_data' = tables_after_convert(tables_data)
    /\ pc' = "serialized_again"
    /\ UNCHANGED <<tables_in, schema_name, raw_default, column_line,
                   ddl_files, parsed, passes, ddl_parser, errors,
                   file_content, schema_dir_exists>>

NextSerializer == ConvertTables \/ ConvertTablesAgain

SpecSerializer == InitSerializer /\ [][NextSerializer]_vars

-----------------------------------------------------------------------------
(* Specification SpecConvert: _convert_schema on the DDL files of a schema *)
(* directory: every file is parsed, the tables are serialized, and the     *)
(* document is reconciled with the files, here up to MaxPasses times       *)

\* a readable file of ASCII text
File(name, text) == [name |-> name, text |-> text, tail |-> <<>>, readable |-> TRUE]

\* the file followed by bytes that are not ASCII, and a file that open() refuses
WithTail(file, tail) == [file EXCEPT !.tail = tail]
Unreadable(file) == [file EXCEPT !.readable = FALSE]

\* the items of a table body, as a dump writes them
ColumnItems ==
    {Q("id") \o " bigint(20) NOT NULL AUTO_INCREMENT",
     Q("email") \o " varchar(100) UNIQUE",
     Q("created_at") \o " timestamp DEFAULT CURRENT_TIMESTAMP",
     Q("api_key") \o " varchar(64) NOT NULL",
     Q("note") \o " text COMMENT 'a, b'"}

ConstraintItems ==
    {"PRIMARY KEY (" \o Q("id") \o ")",
     "KEY " \o Q("idx") \o " (" \o Q("EMAIL") \o ")",
     "CONSTRAINT " \o Q("FK_u") \o " FOREIGN KEY (" \o Q("id") \o ") REFERENCES "
        \o Q("acc") \o " (" \o Q("id") \o ")"}

\* the text of a file that creates one table with the items of body
TableText(name, body) ==
    "CREATE TABLE " \o Q(name) \o " (\n  " \o join(",\n  ", body) \o "\n) ENGINE=InnoDB;"

TableBodies == SeqsOf(ColumnItems \cup ConstraintItems, 1, MaxItems)

\* the users table, written on one line without quoting ...
UsersLineText ==
    "CREATE TABLE users (id bigint(20) NOT NULL AUTO_INCREMENT, "
    \o "email varchar(100) UNIQUE, created_at timestamp DEFAULT CURRENT_TIMESTAMP, "
    \o "PRIMARY KEY (id))"

\* ... and as a dump writes it
UsersDumpText ==
    "CREATE TABLE " \o Q("users") \o " (\n  "
    \o Q("id") \o " bigint(20) NOT NULL AUTO_INCREMENT,\n  "
    \o Q("email") \o " varchar(100) UNIQUE,\n  "
    \o Q("created_at") \o " timestamp DEFAULT CURRENT_TIMESTAMP,\n  "
    \o "PRIMARY KEY (" \o Q("id") \o ")\n);"

UsersLineDir == <<File("users.sql", UsersLineText)>>
UsersDumpDir == <<File("users.sql", UsersDumpText)>>

\* directories with a file that open() refuses, before or after a sibling
\* or alone, and one where another file creates the table of that file
UnreadableDirs ==
    UNION {{<<Unreadable(File("t.sql", TableText("t", <<item>>))),
              File("users.sql", UsersDumpText)>>,
            <<File("users.sql", UsersDumpText),
              Unreadable(File("t.sql", TableText("t", <<item>>)))>>,
            <<Unreadable(File("t.sql", TableText("t", <<item>>)))>>,
            <<File("all.sql", TableText("t", <<item>>)),
              Unreadable(File("t.sql", TableText("t", <<item>>)))>>} :
           item \in ColumnItems}

\* directories whose table has no file of its name
NamelessDirs == {<<File("all.sql", TableText("t", <<item>>))>> : item \in ColumnItems}

\* the bytes after the text of a file: the letter A, the two bytes of a
\* UTF-8 character, and a byte that no UTF-8 text holds
Tails == SeqsOf({65, 195, 181, 255}, 1, MaxTail)

\* directories of one file whose text is followed by such bytes
TailDirs ==
    {<<WithTail(File("t.sql", TableText("t", <<Q("email") \o " varchar(100) UNIQUE">>)),
                tail)>> : tail \in Tails}

\* a table as pg_dump writes it
AccountsText ==
    "CREATE TABLE accounts (\n  id SERIAL PRIMARY KEY,\n  "
    \o "name character varying(50) NOT NULL,\n  "
    \o "created timestamp without time zone\n);"

AccountsDir == <<File("accounts.sql", AccountsText)>>

\* tables with columns whose names hold the word KEY, with and without an
\* index, with an index that names such a column in capitals, and beside a
\* column whose default holds braces
KeyNameBodies ==
    {<<Q("email") \o " varchar(100) UNIQUE", Q("api_key") \o " varchar(64) NOT NULL",
       "KEY " \o Q("k") \o " (" \o Q("API_KEY") \o ")">>,
     <<Q("opts") \o " varchar(20) DEFAULT '{}'", Q("api_key") \o " varchar(64) NOT NULL">>,
     <<Q("email") \o " varchar(100) UNIQUE", Q("api_key") \o " varchar(64) NOT NULL",
       Q("hotkey") \o " int(11) DEFAULT '0'", "KEY " \o Q("idx") \o " (" \o Q("EMAIL") \o ")">>,
     <<Q("hotkey") \o " int(11) DEFAULT '0'", Q("email") \o " varchar(100) UNIQUE",
       Q("api_key") \o " varchar(64) NOT NULL">>,
     <<Q("api_key") \o " varchar(64) NOT NULL", Q("id") \o " bigint(20) NOT NULL AUTO_INCREMENT",
       Q("hotkey") \o " int(11) DEFAULT '0'", "PRIMARY KEY (" \o Q("id") \o ")",
       "UNIQUE KEY " \o Q("u") \o " (" \o Q("id") \o ")">>}

KeyNameDirs ==
    {<<File("t.sql", TableText("t", body))>> : body \in KeyNameBodies}
    \cup {<<File("t.sql", TableText("t", body)), File("users.sql", UsersDumpText)>> :
            body \in KeyNameBodies}

\* the bodies of two statements that create the same table
DuplicateBodies ==
    {<<Q("email") \o " varchar(100) UNIQUE">>,
     <<Q("id") \o " bigint(20) NOT NULL AUTO_INCREMENT", "PRIMARY KEY (" \o Q("id") \o ")">>,
     <<Q("created_at") \o " timestamp DEFAULT CURRENT_TIMESTAMP",
       "CONSTRAINT " \o Q("FK_u") \o " FOREIGN KEY (" \o Q("id") \o ") REFERENCES "
        \o Q("acc") \o " (" \o Q("id") \o ")">>}

\* the table t created twice in one file, and in two files of the directory
\* with the file of another table between them
DuplicateDir(first, last) ==
    {<<File("t.sql", TableText("t", first) \o "\n" \o TableText("t", last))>>,
     <<File("t.sql", TableText("t", first)), File("users.sql", UsersDumpText),
       File("t_new.sql", TableText("t", last))>>}

DuplicateDirs ==
    UNION {DuplicateDir(first, last) : first \in DuplicateBodies, last \in DuplicateBodies}

\* types of the table of _convert_sql_type_to_dbml, some with a size
KeyTypes ==
    {"datetime", "timestamp", "integer", "datetime(6)", "int(11)", "varchar(64)",
     "tinyint(1)", "date", "time", "mediumtext"}

\* a table whose second column holds the word KEY in its name and has the type
KeyTypeBody(type) ==
    <<Q("email") \o " varchar(100) UNIQUE", Q("key_c") \o " " \o type \o " NOT NULL">>

KeyTypeDirs == {<<File("t.sql", TableText("t", KeyTypeBody(type)))>> : type \in KeyTypes}

\* the directories that may be gone when the document is reconciled
RemovableDirs == {UsersLineDir, UsersDumpDir}

SchemaDirs ==
    {<<File("t.sql", TableText("t", body))>> : body \in TableBodies}
    \cup {UsersLineDir, UsersDumpDir}
    \cup {<<File("t.sql", TableText("t", <<item>>)), File("users.sql", UsersDumpText)>> :
            item \in ColumnItems}
    \cup {<<File("drop.sql", "DROP TABLE " \o Q("t") \o ";")>>}
    \cup UnreadableDirs \cup NamelessDirs \cup TailDirs
    \cup {AccountsDir, <<File("users.sql", UsersDumpText), File("accounts.sql", AccountsText)>>}
    \cup KeyNameDirs \cup DuplicateDirs \cup KeyTypeDirs

InitConvert ==
    /\ pc = "parse"
    /\ ddl_files \in SchemaDirs
    /\ parsed = 0
    /\ tables_data = <<>>
    /\ tables_in = <<>>
    /\ schema_name = Some("shop")
    /\ dbml = ""
    /\ passes = 0
    /\ dbml_before = ""
    /\ ddl_parser = "DDLParser"
    /\ errors = <<>>
    /\ file_content = None
    /\ schema_dir_exists \in IF ddl_files \in RemovableDirs THEN BOOLEAN ELSE {TRUE}
    /\ raw_default = ""
    /\ column_line = ""

\* parse_file_turn with an except clause that leaves the loop
parse_file_turn_break(files, k, all_tables, error_list) ==
    Let(ddl_parser_read(files[k]), LAMBDA read :
        IF read.raised # ""
        THEN [all_tables |-> all_tables,
              errors |-> Append(error_list, files[k].name \o ": " \o read.raised),
              content |-> None, parsed |-> Len(files)]
        ELSE [all_tables |-> dict_update(all_tables, parse_ddl_content(read.text)),
              errors |-> error_list, content |-> Some(read.text), parsed |-> k])

\* convert_to_dbml.py lines 147-164: the turn of the loop for the k-th file:
\* the mapping and the error list after it, the content that was parsed (None
\* when parse_file raised), and the number of files that are done
parse_file_turn(files, k, all_tables, error_list) ==
    Let(ddl_parser_read(files[k]), LAMBDA read :
        IF read.raised # ""
        THEN [all_tables |-> all_tables,
              errors |-> Append(error_list, files[k].name \o ": " \o read.raised),
              content |-> None, parsed |-> k]
        ELSE [all_tables |-> dict_update(all_tables, parse_ddl_content(read.text)),
              errors |-> error_list, content |-> Some(read.text), parsed |-> k])

\* convert_to_dbml.py lines 147-168: one turn of the loop over the files, and
\* after the last file the test for an empty mapping
ParseFile ==
    /\ pc = "parse"
    /\ parsed < Len(ddl_files)
    /\ Let(parse_file_turn(ddl_files, parsed + 1, tables_data, errors), LAMBDA turn :
            /\ tables_data' = turn.all_tables
            /\ errors' = turn.errors
            /\ file_content' = IF turn.content = None THEN file_content ELSE turn.content
            /\ parsed' = turn.parsed
            /\ IF turn.parsed < Len(ddl_files)
               THEN pc' = "parse" /\ tables_in' = tables_in
               ELSE IF turn.all_tables = <<>>
               THEN pc' = "done" /\ tables_in' = tables_in
               ELSE pc' = "serialize" /\ tables_in' = turn.all_tables)
    /\ UNCHANGED <<schema_name, dbml, raw_default, column_line, ddl_files, passes,
                   dbml_before, ddl_parser, schema_dir_exists>>

\* convert_to_dbml.py lines 173-177: validate_and_fix_missing_columns on the
\* draft of the serializer when the directory exists, and then on its own
\* output; an exception leaves _convert_schema and is recorded by
\* _convert_database (lines 129-131), and no document is saved
Reconcile ==
    /\ pc \in {"serialized", "reconciled"}
    /\ passes < MaxPasses
    /\ dbml_before' = dbml
    /\ passes' = passes + 1
    /\ IF ~schema_dir_exists
       THEN dbml' = dbml /\ pc' = "reconciled" /\ errors' = errors
       ELSE Let(validate_and_fix_raises(dbml, ddl_files), LAMBDA raised :
                IF raised # ""
                THEN /\ dbml' = dbml
                     /\ pc' = "failed"
                     /\ errors' = Append(errors, schema_name[1] \o ": " \o raised)
                ELSE /\ dbml' = validate_and_fix_missing_columns(dbml, ddl_files)
                     /\ pc' = "reconciled"
                     /\ errors' = errors)
    /\ UNCHANGED <<tables_data, tables_in, schema_name, raw_default, column_line,
                   ddl_files, parsed, ddl_parser, file_content, schema_dir_exists>>

NextConvert == ParseFile \/ ConvertTables \/ Reconcile

SpecConvert == InitConvert /\ [][NextConvert]_vars

-----------------------------------------------------------------------------
(* Specification SpecExtract: parse_ddl_content of either extractor on a   *)
(* file that creates one table                                             *)

\* column definitions with an inline key, a quoted name that is not a word,
\* and a list of values
ExtractColumnItems ==
    ColumnItems
    \cup {Q("id") \o " int(11) NOT NULL PRIMARY KEY",
          Q("my-col") \o " int DEFAULT '0'",
          Q("kind") \o " enum('a','b') DEFAULT 'a'"}

\* the bodies that hold column definitions only
ColumnBodies == SeqsOf(ExtractColumnItems, 1, MaxItems)

\* items that name a constraint and give no list of columns
MalformedItems ==
    {"PRIMARY KEY", "PRIMARY KEY ()", "UNIQUE KEY " \o Q("u"), "KEY " \o Q("idx"),
     "FOREIGN KEY (" \o Q("id") \o ")"}

\* such an item alone, and before and after a column definition
MalformedBodies ==
    UNION {{<<bad>>, <<bad, Q("email") \o " varchar(100) UNIQUE">>,
            <<Q("email") \o " varchar(100) UNIQUE", bad>>} : bad \in MalformedItems}

\* column definitions with a comma inside a quoted default, inside a comment
\* literal and inside parentheses, and one whose default is a backslash
SplitItems ==
    {Q("kind") \o " enum('a','b') DEFAULT 'a'",
     Q("tags") \o " varchar(20) DEFAULT 'x,y'",
     Q("memo") \o " text COMMENT \"it's, ok\"",
     Q("price") \o " decimal(10,2) NOT NULL",
     Q("path") \o " varchar(9) DEFAULT '\\\\'"}

\* such an item before and after a plain column definition
SplitBodies ==
    UNION {{<<item, Q("b") \o " int">>, <<Q("b") \o " int", item>>} : item \in SplitItems}

\* a column definition whose default is the quoted literal of the text
QuotedDefaultItem(text) == Q("code") \o " varchar(10) DEFAULT '" \o text \o "'"

QuotedDefaults == {"abc", "Abc", "ABC"}

QuotedDefaultBodies == {<<QuotedDefaultItem(text)>> : text \in QuotedDefaults}

\* constraint items, each with the plain column references of its list: with
\* a sort order, with a prefix length, with names that hold the name of an
\* SQL function, and with an expression
IndexItems ==
    {<<"UNIQUE KEY " \o Q("u") \o " (" \o Q("a") \o " DESC," \o Q("b") \o ")", <<"a", "b">>>>,
     <<"FULLTEXT KEY " \o Q("f") \o " (" \o Q("title") \o "," \o Q("body") \o ")",
       <<"title", "body">>>>,
     <<"KEY " \o Q("i") \o " (name(10))", <<"name">>>>,
     <<"KEY " \o Q("i") \o " (" \o Q("name") \o "(10))", <<"name">>>>,
     <<"KEY " \o Q("i") \o " (" \o Q("birthday") \o ")", <<"birthday">>>>,
     <<"PRIMARY KEY (" \o Q("id") \o "," \o Q("year") \o ")", <<"id", "year">>>>,
     <<"KEY " \o Q("i") \o " (" \o Q("a") \o ",(lower(" \o Q("b") \o ")))", <<"a">>>>}

\* such an item after a column definition
IndexBody(item) == <<Q("b") \o " int", item>>

IndexBodies == {IndexBody(x[1]) : x \in IndexItems}

ExtractBodies ==
    SeqsOf(ExtractColumnItems \cup ConstraintItems, 1, MaxItems) \cup MalformedBodies
    \cup SplitBodies \cup QuotedDefaultBodies \cup IndexBodies

\* CREATE statements that create no table, one of them with a CREATE TABLE
\* inside, and CREATE TABLE statements without a table name
OtherStatements ==
    {"CREATE PROCEDURE p(n int) CREATE TABLE tmp (a int);",
     "CREATE PROCEDURE q() DELETE FROM u;",
     "CREATE FUNCTION f RETURNS int SONAME 'f.so';",
     "CREATE VIEW v AS SELECT id FROM u;",
     "CREATE UNIQUE INDEX i ON u (id);",
     "CREATE TRIGGER g AFTER INSERT ON u FOR EACH ROW DELETE FROM w;",
     "CREATE EVENT e ON SCHEDULE EVERY 1 DAY DO DELETE FROM logs;",
     "CREATE TABLE;",
     "CREATE TABLE ();"}

\* the table that the files of StatementFiles create beside such a statement
EmailTableText == TableText("t", <<Q("email") \o " varchar(100) UNIQUE">>)

\* such a statement alone, and before and after a CREATE TABLE statement
StatementFiles ==
    UNION {{<<File("t.sql", other)>>,
            <<File("t.sql", other \o "\n" \o EmailTableText)>>,
            <<File("t.sql", EmailTableText \o "\n" \o other)>>} : other \in OtherStatements}

InitExtract ==
    /\ pc = "extract"
    /\ ddl_parser \in {"DDLParser", "MySQLDDLParser"}
    /\ errors = <<>>
    /\ file_content = None
    /\ schema_dir_exists = TRUE
    /\ ddl_files \in {<<File("t.sql", TableText("t", body))>> : body \in ExtractBodies}
                    \cup StatementFiles
    /\ parsed = 0
    /\ tables_data = <<>>
    /\ tables_in = <<>>
    /\ schema_name = None
    /\ dbml = ""
    /\ passes = 0
    /\ dbml_before = ""
    /\ raw_default = ""
    /\ column_line = ""

\* DDLParser.parse_ddl_content on the text of the file
ExtractDDL ==
    /\ pc = "extract"
    /\ ddl_parser = "DDLParser"
    /\ tables_data' = parse_ddl_content(ddl_files[1].text)
    /\ parsed' = 1
    /\ pc' = "extracted"
    /\ UNCHANGED <<tables_in, schema_name, dbml, raw_default, column_line, ddl_files,
                   passes, dbml_before, ddl_parser, errors,
                   file_content, schema_dir_exists>>

\* MySQLDDLParser.parse_ddl_content on the text of the file
ExtractMySQL ==
    /\ pc = "extract"
    /\ ddl_parser = "MySQLDDLParser"
    /\ tables_data' = mysql_parse_ddl_content(ddl_files[1].text)
    /\ parsed' = 1
    /\ pc' = "extracted"
    /\ UNCHANGED <<tables_in, schema_name, dbml, raw_default, column_line, ddl_files,
                   passes, dbml_before, ddl_parser, errors,
                   file_content, schema_dir_exists>>

\* convert_tables_to_dbml on the mapping the extractor returned; tables_in
\* keeps the records as the extractor built them
ConvertExtracted ==
    /\ pc = "extracted"
    /\ tables_data # <<>>
    /\ dbml' = convert_tables_to_dbml(tables_data, schema_name)
    /\ tables_in' = tables_data
    /\ tables_data' = tables_after_convert(tables_data)
    /\ pc' = "serialized"
    /\ UNCHANGED <<schema_name, raw_default, column_line, ddl_files, parsed, passes,
                   dbml_before, ddl_parser, errors, file_content, schema_dir_exists>>

NextExtract == ExtractDDL \/ ExtractMySQL \/ ConvertExtracted

SpecExtract == InitExtract /\ [][NextExtract]_vars

-----------------------------------------------------------------------------
(* Specification SpecParseFile: parse_file of either extractor on one file *)
(* whose text is followed by bytes that not every encoding decodes         *)

\* a text that creates a table and one that creates none
ParseFileTexts == {EmailTableText, "DROP TABLE " \o Q("t") \o ";"}

InitParseFile ==
    /\ pc = "read"
    /\ ddl_parser \in {"DDLParser", "MySQLDDLParser"}
    /\ ddl_files \in {<<IF readable THEN WithTail(File("t.sql", text), tail)
                         ELSE Unreadable(WithTail(File("t.sql", text), tail))>> :
                            text \in ParseFileTexts, tail \in Tails \cup {<<>>},
                            readable \in BOOLEAN}
    /\ errors = <<>>
    /\ file_content = None
    /\ schema_dir_exists = TRUE
    /\ parsed = 0
    /\ tables_data = <<>>
    /\ tables_in = <<>>
    /\ schema_name = None
    /\ dbml = ""
    /\ passes = 0
    /\ dbml_before = ""
    /\ raw_default = ""
    /\ column_line = ""

\* ddl_parser.py lines 19-29: DDLParser.parse_file; errors gets the exception
\* that reaches the caller
DDLParserParseFile ==
    /\ pc = "read"
    /\ ddl_parser = "DDLParser"
    /\ Let(ddl_parser_read(ddl_files[1]), LAMBDA read :
            IF read.raised # ""
            THEN /\ errors' = Append(errors, read.raised)
                 /\ pc' = "raised"
                 /\ UNCHANGED <<file_content, tables_data>>
            ELSE /\ file_content' = Some(read.text)
                 /\ tables_data' = parse_ddl_content(read.text)
                 /\ pc' = "returned"
                 /\ errors' = errors)
    /\ parsed' = 1
    /\ UNCHANGED <<tables_in, schema_name, dbml, raw_default, column_line, ddl_files,
                   passes, dbml_before, ddl_parser, schema_dir_exists>>

\* base_ddl_parser.py lines 16-32: BaseDDLParser.parse_file, which
\* MySQLDDLParser inherits
BaseParserParseFile ==
    /\ pc = "read"
    /\ ddl_parser = "MySQLDDLParser"
    /\ Let(base_parser_read(ddl_files[1], 1), LAMBDA read :
            IF read.raised # ""
            THEN /\ errors' = Append(errors, read.raised)
                 /\ pc' = "raised"
                 /\ UNCHANGED <<file_content, tables_data>>
            ELSE /\ file_content' = Some(read.text)
                 /\ tables_data' = mysql_parse_ddl_content(read.text)
                 /\ pc' = "returned"
                 /\ errors' = errors)
    /\ parsed' = 1
    /\ UNCHANGED <<tables_in, schema_name, dbml, raw_default, column_line, ddl_files,
                   passes, dbml_before, ddl_parser, schema_dir_exists>>

NextParseFile == DDLParserParseFile \/ BaseParserParseFile

SpecParseFile == InitParseFile /\ [][NextParseFile]_vars

-----------------------------------------------------------------------------
(* Specification SpecPostgreSQL: parse_ddl_content of the PostgreSQL       *)
(* extractor on a file that creates one table, and the serializer on its   *)
(* result                                                                  *)

\* a column definition with a DEFAULT clause
DefaultItem(name, type, default, rest) == name \o " " \o type \o " DEFAULT " \o default \o rest

\* the columns with a default: <<name, type, default, rest>>
DefaultColumns ==
    {<<"id", "integer", "nextval('t_id_seq'::regclass)", " NOT NULL">>,
     <<"seq", "bigint", "NEXTVAL('t_seq')", "">>,
     <<"qty", "integer", "0", " NOT NULL">>,
     <<"price", "numeric(10,2)", "0.00", "">>,
     <<"created", "timestamp without time zone", "now()", "">>,
     <<"updated", "timestamp with time zone", "CURRENT_TIMESTAMP", "">>,
     <<"code", "char(2)", "'kr'", "">>,
     <<"status", "character varying(20)", "'active'::character varying", " NOT NULL">>,
     <<"note", "text", "'a b'", "">>}

PostgreSQLColumnItems ==
    {DefaultItem(d[1], d[2], d[3], d[4]) : d \in DefaultColumns}
    \cup {"uid SERIAL PRIMARY KEY", "name character varying(50) NOT NULL",
          "\"Email\" text UNIQUE"}

PostgreSQLConstraintItems ==
    {"CONSTRAINT t_pkey PRIMARY KEY (id)",
     "CONSTRAINT t_owner_fkey FOREIGN KEY (owner) REFERENCES public.\"users\"(id)",
     "CONSTRAINT t_name_key UNIQUE (name, \"Email\")"}

\* a table as pg_dump writes it
PostgreSQLTableText(name, body) ==
    "CREATE TABLE " \o name \o " (\n    " \o join(",\n    ", body) \o "\n);"

PostgreSQLBodies == SeqsOf(PostgreSQLColumnItems \cup PostgreSQLConstraintItems, 1, MaxItems)

InitPostgreSQL ==
    /\ pc = "extract"
    /\ ddl_parser = "PostgreSQLDDLParser"
    /\ ddl_files \in {<<File("t.sql", PostgreSQLTableText(name, body))>> :
                        name \in {"public.t", "\"t\""}, body \in PostgreSQLBodies}
    /\ errors = <<>>
    /\ file_content = None
    /\ schema_dir_exists = TRUE
    /\ parsed = 0
    /\ tables_data = <<>>
    /\ tables_in = <<>>
    /\ schema_name = None
    /\ dbml = ""
    /\ passes = 0
    /\ dbml_before = ""
    /\ raw_default = ""
    /\ column_line = ""

\* PostgreSQLDDLParser.parse_ddl_content on the text of the file
ExtractPostgreSQL ==
    /\ pc = "extract"
    /\ ddl_parser = "PostgreSQLDDLParser"
    /\ tables_data' = postgresql_parse_ddl_content(ddl_files[1].text)
    /\ parsed' = 1
    /\ pc' = "extracted"
    /\ UNCHANGED <<tables_in, schema_name, dbml, raw_default, column_line, ddl_files,
                   passes, dbml_before, ddl_parser, errors,
                   file_content, schema_dir_exists>>

NextPostgreSQL == ExtractPostgreSQL \/ ConvertExtracted

SpecPostgreSQL == InitPostgreSQL /\ [][NextPostgreSQL]_vars

-----------------------------------------------------------------------------
(* Reading a produced document back, for the properties below              *)

DocLines == split(dbml, "\n")

RefLinesOf(lines) == SelectSeq(lines, LAMBDA l : startswith(l, "Ref:"))

\* the index of the header line of the t-th Table block
RECURSIVE TableHeaderFrom(_, _, _)
TableHeaderFrom(lines, t, h) ==
    IF h > Len(lines) THEN 0
    ELSE IF startswith(lines[h], "Table ")
         THEN IF t = 1 THEN h ELSE TableHeaderFrom(lines, t - 1, h + 1)
         ELSE TableHeaderFrom(lines, t, h + 1)

TableHeader(lines, t) == TableHeaderFrom(lines, t, 1)

\* the line of the i-th column of the t-th table
ColumnLineOf(lines, t, i) == lines[TableHeader(lines, t) + i]

\* the entries of the Indexes block of the t-th table, whose n columns come first
IndexEntriesOf(lines, t, n) ==
    LET after == TableHeader(lines, t) + n + 1
    IN  IF after + 1 <= Len(lines) /\ lines[after] = "" /\ lines[after + 1] = "  Indexes {"
        THEN LET close == CHOOSE e \in (after + 2)..Len(lines) :
                            lines[e] = "  }" /\ \A f \in (after + 2)..(e - 1) : lines[f] # "  }"
             IN  SubSeq(lines, after + 2, close - 1)
        ELSE <<>>

\* the attributes between the square brackets of a column line
AttributesOf(line) ==
    LET open == find(line, " [")
    IN  IF open = 0 \/ ~endswith(line, "]") THEN <<>>
        ELSE split(SubSeq(line, open + 2, Len(line) - 1), ", ")

\* the column names between the parentheses of an index entry
EntryColumnsOf(entry) ==
    split(SubSeq(entry, find(entry, "(") + 1, find(entry, ")") - 1), ", ")

Has(seq, x) == \E i \in 1..Len(seq) : seq[i] = x

AttributeRank(a) ==
    CASE a = "pk" -> 1
      [] a = "increment" -> 2
      [] a = "not null" -> 3
      [] a = "unique" -> 4
      [] startswith(a, "default: ") -> 5
      [] OTHER -> 0

\* the name is listed, in any letter case, by a primary_key constraint of the table
InPrimaryKeyConstraint(table, name) ==
    \E k \in 1..Len(table.constraints) :
        /\ table.constraints[k].type = "primary_key"
        /\ \E j \in 1..Len(table.constraints[k].columns) :
                lower(table.constraints[k].columns[j]) = lower(name)

Serialized == pc = "serialized"

-----------------------------------------------------------------------------
(* Properties of the conversion of a schema directory, checked under       *)
(* SpecConvert                                                             *)

\* the lines of the block of table name, between its header and its closing
\* brace, without their indentation; <<>> when there is no such block
BlockLines(lines, name) ==
    LET headers == {h \in 1..Len(lines) : lines[h] = "Table " \o name \o " {"}
        h == CHOOSE x \in headers : \A y \in headers : x <= y
        closes == {e \in (h + 1)..Len(lines) : lines[e] = "}"}
        e == CHOOSE x \in closes : \A y \in closes : x <= y
    IN  IF headers = {} \/ closes = {} THEN <<>>
        ELSE [k \in 1..(e - h - 1) |-> strip(lines[h + k])]

\* C1: extracting and serializing the one-line users table gives a Table users
\* block whose lines are exactly the three column lines
\* id bigint(20) [pk, increment], email varchar(100) [unique] and
\* created_at timestamp [default: now() in backquotes], with no Indexes block.
C1_UsersExample ==
    (pc = "serialized" /\ ddl_files = UsersLineDir) =>
        /\ BlockLines(DocLines, "users") =
               <<"id bigint(20) [pk, increment]",
                 "email varchar(100) [unique]",
                 "created_at timestamp [default: " \o Q("now()") \o "]">>
        /\ ~Contains(dbml, "Indexes")

\* the name that a column item declares, between its backquotes
ItemName(item) == SubSeq(item, 2, find_from(item, BT, 2) - 1)

\* C2: when the only file holds one CREATE TABLE t whose body is N column
\* definitions and no constraint item, the extraction gives one table t with
\* N column records, named as the definitions and in their order, and with
\* no constraint record.
C2_ColumnsOnly ==
    \A body \in ColumnBodies :
        (/\ pc = "extracted"
         /\ ddl_files = <<File("t.sql", TableText("t", body))>>) =>
            /\ Len(tables_data) = 1
            /\ tables_data[1].name = "t"
            /\ [k \in 1..Len(tables_data[1].columns) |-> tables_data[1].columns[k].name]
                  = [k \in 1..Len(body) |-> ItemName(body[k])]
            /\ tables_data[1].constraints = <<>>

\* C3: a second reconciliation pass over the output of the first changes
\* nothing: it finds no missing column in any table and gives the document
\* it was given.
C3_ReconcileIdempotent ==
    passes >= 2 =>
        /\ missing_columns(dbml_before, ddl_files) = {}
        /\ dbml = dbml_before

-----------------------------------------------------------------------------
(* Properties of the serializer, checked under SpecSerializer              *)

\* C4: in a document returned by convert_tables_to_dbml no Ref line text occurs
\* more than once, also when identical composite foreign keys ask for it twice.
C4_RefLinesUnique ==
    Serialized =>
        LET lines == DocLines
        IN  \A i \in 1..Len(lines) :
                startswith(lines[i], "Ref:") => Count(lines, lines[i]) = 1

CompositeForeignKey == ForeignKey(<<"user_id", "beginpit">>, "users", <<"id", "name">>)

\* two identical composite foreign keys were converted
C4_Witness ==
    /\ Serialized
    /\ \E t \in 1..Len(tables_in) :
            tables_in[t].constraints = <<CompositeForeignKey, CompositeForeignKey>>
    /\ LET lines == DocLines
       IN  /\ Count(lines, "Ref: orders.user_id > Users.Id") = 1
           /\ Count(lines, "Ref: orders.beginPit > Users.Name") = 1

\* the pairs <<t, k, i>>: position i of foreign key k of table t, when the key
\* has as many referenced columns as source columns
RECURSIVE ForeignKeyPairs(_, _, _, _)
ForeignKeyPairs(data, t, k, i) ==
    IF t > Len(data) THEN <<>>
    ELSE IF k > Len(data[t].constraints) THEN ForeignKeyPairs(data, t + 1, 1, 1)
    ELSE LET c == data[t].constraints[k]
         IN  IF c.type # "foreign_key" \/ Len(c.columns) # Len(c.ref_columns)
                \/ i > Len(c.columns)
             THEN ForeignKeyPairs(data, t, k + 1, 1)
             ELSE <<<<t, k, i>>>> \o ForeignKeyPairs(data, t, k, i + 1)

\* the line of a pair, in lower case
PairLine(data, p) ==
    LET c == data[p[1]].constraints[p[2]]
    IN  lower("Ref: " \o data[p[1]].name \o "." \o c.columns[p[3]] \o " > "
              \o c.ref_table \o "." \o c.ref_columns[p[3]])

\* C5: a foreign key with N source and N referenced columns contributes one
\* single-column line Ref: table.source[i] > target.ref[i] for each position i,
\* in order, and never a composite relation.
C5_CompositeDecomposed ==
    Serialized =>
        LET pairs == ForeignKeyPairs(tables_in, 1, 1, 1)
            refs == RefLinesOf(DocLines)
        IN  /\ \A n \in 1..Len(pairs) :
                    \E r \in 1..Len(refs) : lower(refs[r]) = PairLine(tables_in, pairs[n])
            /\ \A r \in 1..Len(refs) :
                    /\ Len(split(refs[r], " > ")) = 2
                    /\ ~Contains(refs[r], ",")
                    /\ ~Contains(refs[r], "(")
            /\ (\A m, n \in 1..Len(pairs) :
                    m # n => PairLine(tables_in, pairs[m]) # PairLine(tables_in, pairs[n]))
                => /\ Len(refs) = Len(pairs)
                   /\ \A n \in 1..Len(pairs) : lower(refs[n]) = PairLine(tables_in, pairs[n])

\* a two-column foreign key was converted into its two lines, in order
C5_Witness ==
    /\ Serialized
    /\ tables_in[1].name = "orders"
    /\ tables_in[1].constraints = <<CompositeForeignKey>>
    /\ Len(tables_in) = 2
    /\ RefLinesOf(DocLines) =
            <<"Ref: orders.user_id > Users.Id", "Ref: orders.beginPit > Users.Name">>

\* the declared names of the table's columns that equal name in lower case
DeclaredAs(table, name) ==
    {table.columns[i].name : i \in {j \in 1..Len(table.columns) :
                                        lower(table.columns[j].name) = lower(name)}}

\* C6: a column name inside an index entry is the declared-case name of the
\* table column it equals case-insensitively; a name that matches no declared
\* column is written as the constraint gave it.
C6_IndexColumnCase ==
    Serialized =>
        \A t \in 1..Len(tables_in) :
            LET table == tables_in[t]
                lines == DocLines
                entries == IndexEntriesOf(lines, t, Len(table.columns))
                listed == {k \in 1..Len(table.constraints) :
                                table.constraints[k].type \in {"unique", "index"}}
            IN  /\ \A e \in 1..Len(entries) :
                        \A n \in 1..Len(EntryColumnsOf(entries[e])) :
                            LET name == EntryColumnsOf(entries[e])[n]
                            IN  IF DeclaredAs(table, name) # {}
                                THEN name \in DeclaredAs(table, name)
                                ELSE \E k \in listed :
                                        Has(table.constraints[k].columns, name)
                /\ \A k \in listed :
                        \E e \in 1..Len(entries) :
                            [n \in 1..Len(EntryColumnsOf(entries[e])) |->
                                lower(EntryColumnsOf(entries[e])[n])]
                            = [n \in 1..Len(table.constraints[k].columns) |->
                                lower(table.constraints[k].columns[n])]

\* an index given as BEGINPIT was written with the declared name beginPit
C6_Witness ==
    /\ Serialized
    /\ \E t \in 1..Len(tables_in) :
        /\ Has(tables_in[t].constraints, Constraint("index", <<"BEGINPIT">>))
        /\ Has(IndexEntriesOf(DocLines, t, Len(tables_in[t].columns)), "    (beginPit)")

\* C9: the attributes of a column line come in the order pk, increment,
\* not null, unique, default, each at most once, and unique is never written
\* together with pk.
C9_AttributeOrder ==
    Serialized =>
        \A t \in 1..Len(tables_in) :
            \A i \in 1..Len(tables_in[t].columns) :
                LET attributes == AttributesOf(ColumnLineOf(DocLines, t, i))
                IN  /\ \A a \in 1..Len(attributes) : AttributeRank(attributes[a]) > 0
                    /\ \A a \in 1..(Len(attributes) - 1) :
                            AttributeRank(attributes[a]) < AttributeRank(attributes[a + 1])
                    /\ ~(Has(attributes, "pk") /\ Has(attributes, "unique"))

\* a unique column that is a primary key only by a table-level constraint was
\* written with all the other attributes, and without unique
C9_Witness ==
    /\ Serialized
    /\ \E t \in 1..Len(tables_in) :
        \E i \in 1..Len(tables_in[t].columns) :
            /\ tables_in[t].columns[i].unique
            /\ ~tables_in[t].columns[i].primary_key
            /\ InPrimaryKeyConstraint(tables_in[t], tables_in[t].columns[i].name)
            /\ AttributesOf(ColumnLineOf(DocLines, t, i))
                    = <<"pk", "increment", "not null", "default: 0">>

\* C10: a column is written with pk exactly when its own primary_key flag is set
\* or a primary_key constraint of its table lists its name in any letter case;
\* a primary_key constraint adds no entry to the Indexes block.
C10_PrimaryKeyColumns ==
    Serialized =>
        \A t \in 1..Len(tables_in) :
            LET table == tables_in[t]
                lines == DocLines
                others == {k \in 1..Len(table.constraints) :
                                table.constraints[k].type # "primary_key"}
            IN  /\ \A i \in 1..Len(table.columns) :
                        Has(AttributesOf(ColumnLineOf(lines, t, i)), "pk")
                        <=> (table.columns[i].primary_key
                             \/ InPrimaryKeyConstraint(table, table.columns[i].name))
                /\ Len(IndexEntriesOf(lines, t, Len(table.columns))) <= Cardinality(others)

\* a column without the flag, listed as ID by a primary_key constraint, was
\* written with pk, and the constraint left no Indexes block
C10_Witness ==
    /\ Serialized
    /\ \E t \in 1..Len(tables_in) :
        /\ tables_in[t].constraints = <<Constraint("primary_key", <<"ID">>)>>
        /\ tables_in[t].columns[1].name = "id"
        /\ ~tables_in[t].columns[1].primary_key
        /\ Has(AttributesOf(ColumnLineOf(DocLines, t, 1)), "pk")
        /\ IndexEntriesOf(DocLines, t, Len(tables_in[t].columns)) = <<>>

-----------------------------------------------------------------------------
(* Properties of the default-literal policy, checked under SpecLiteral     *)

LiteralDone == pc = "literal_done"

\* the column line carries the default between single quotes / as it is
WrittenQuoted(value) == column_line = "c varchar(32) [default: '" \o value \o "']"
WrittenBare(value) == column_line = "c varchar(32) [default: " \o value \o "]"

DigitsAt(s, positions) == \A i \in positions : IsDigitCh(Ch(s, i))

\* YYYY-MM-DD, YYYY-MM-DD HH:MM:SS or HH:MM:SS
DateShaped(s) ==
    \/ Len(s) = 10 /\ DigitsAt(s, {1, 2, 3, 4, 6, 7, 9, 10})
                   /\ Ch(s, 5) = "-" /\ Ch(s, 8) = "-"
    \/ Len(s) = 19 /\ DigitsAt(s, {1, 2, 3, 4, 6, 7, 9, 10, 12, 13, 15, 16, 18, 19})
                   /\ Ch(s, 5) = "-" /\ Ch(s, 8) = "-" /\ Ch(s, 11) = " "
                   /\ Ch(s, 14) = ":" /\ Ch(s, 17) = ":"
    \/ Len(s) = 8 /\ DigitsAt(s, {1, 2, 4, 5, 7, 8}) /\ Ch(s, 3) = ":" /\ Ch(s, 6) = ":"

\* 2 to 4 groups, separated by dots, of 1 to 3 digits each in 0..255
IPShaped(s) ==
    LET groups == split(s, ".")
    IN  /\ Len(groups) \in 2..4
        /\ \A g \in 1..Len(groups) :
                /\ Len(groups[g]) \in 1..3
                /\ isdigit(groups[g])
                /\ to_int(groups[g]) <= 255

DigitsAndDots(s) ==
    /\ Contains(s, ".")
    /\ \E i \in 1..Len(s) : IsDigitCh(Ch(s, i))
    /\ \A i \in 1..Len(s) : IsDigitCh(Ch(s, i)) \/ Ch(s, i) = "."

\* C7: a default that is date/time-shaped or IP-shaped is written single-quoted,
\* never bare; a default is written bare as a number only when it is all digits,
\* or digits with dots that is neither date-shaped nor IP-shaped.
C7_DateAndIPBeforeNumber ==
    LiteralDone =>
        /\ (DateShaped(raw_default) \/ IPShaped(raw_default))
                => (WrittenQuoted(raw_default) /\ ~WrittenBare(raw_default))
        /\ (WrittenBare(raw_default) /\ lower(raw_default) \notin {"true", "false", "null"})
                => \/ isdigit(raw_default)
                   \/ (DigitsAndDots(raw_default) /\ ~DateShaped(raw_default)
                       /\ ~IPShaped(raw_default))

\* the IP-shaped default 0.0.0.0 was written between quotes
C7_Witness ==
    /\ LiteralDone
    /\ raw_default = "0.0.0.0"
    /\ IPShaped(raw_default)
    /\ column_line = "c varchar(32) [default: '0.0.0.0']"

\* C8: a default equal to true or false in any letter case is written as the
\* bare lower-case token.
C8_BooleanLowerCase ==
    (LiteralDone /\ lower(raw_default) \in {"true", "false"})
        => WrittenBare(lower(raw_default))


-----------------------------------------------------------------------------
(* Properties of the Indexes block and of the written names, checked under *)
(* SpecSerializer                                                          *)

\* the unique, index and fulltext constraints of a table, in constraint order
ListedConstraints(table) ==
    SelectSeq(table.constraints, LAMBDA c : c.type \in {"unique", "index", "fulltext"})

\* the index of the last line of the block of the t-th table
TableEnd(lines, t) ==
    LET next == TableHeader(lines, t + 1)
    IN  IF next = 0 THEN Len(lines) ELSE next - 1

\* how many lines of the block of the t-th table open an Indexes block
IndexesBlocksOf(lines, t) ==
    Cardinality({i \in TableHeader(lines, t)..TableEnd(lines, t) : lines[i] = "  Indexes {"})

\* C11: in every table each unique, index and fulltext constraint gives exactly
\* one entry of the table's Indexes block, in constraint order, the unique ones
\* with the suffix [unique] and the others without; the block is written at
\* most once, and only when there is such an entry.
C11_IndexesBlock ==
    Serialized =>
        \A t \in 1..Len(tables_in) :
            LET lines == DocLines
                listed == ListedConstraints(tables_in[t])
                entries == IndexEntriesOf(lines, t, Len(tables_in[t].columns))
            IN  /\ Len(entries) = Len(listed)
                /\ \A k \in 1..Len(entries) :
                        endswith(entries[k], " [unique]") <=> listed[k].type = "unique"
                /\ IndexesBlocksOf(lines, t) = IF listed = <<>> THEN 0 ELSE 1

\* the name holds a space or one of - . / \ ( ) [ ]
NeedsQuotes(name) ==
    \E i \in 1..Len(name) : Ch(name, i) \in {" ", "-", ".", "/", "\\", "(", ")", "[", "]"}

\* a name as the document is to carry it
WrittenName(name) == IF NeedsQuotes(name) THEN "\"" \o name \o "\"" ELSE name

\* the table names and the column names that the mapping holds, in its tables
\* and in its constraints
TableNamesOf(data) ==
    {data[t].name : t \in 1..Len(data)}
    \cup UNION {{data[t].constraints[k].ref_table : k \in 1..Len(data[t].constraints)} :
                t \in 1..Len(data)}

ColumnNamesOf(data) ==
    UNION {{data[t].columns[i].name : i \in 1..Len(data[t].columns)} : t \in 1..Len(data)}
    \cup UNION {UNION {{c.columns[i] : i \in 1..Len(c.columns)}
                       \cup {c.ref_columns[i] : i \in 1..Len(c.ref_columns)} :
                       c \in {data[t].constraints[k] : k \in 1..Len(data[t].constraints)}} :
                t \in 1..Len(data)}

\* C12: a table or column name that holds a space or one of - . / \ ( ) [ ] is
\* written between double quotes in the Table header, in its column line, in
\* the Indexes entries and in the Ref lines; any other name is written bare.
C12_NamesQuoted ==
    Serialized =>
        LET lines == DocLines
            refs == RefLinesOf(lines)
        IN  /\ \A t \in 1..Len(tables_in) :
                LET table == tables_in[t]
                    entries == IndexEntriesOf(lines, t, Len(table.columns))
                IN  /\ lines[TableHeader(lines, t)]
                            = "Table " \o WrittenName(table.name) \o " {"
                    /\ \A i \in 1..Len(table.columns) :
                            startswith(ColumnLineOf(lines, t, i),
                                       "  " \o WrittenName(table.columns[i].name) \o " ")
                    /\ \A e \in 1..Len(entries) :
                            \A n \in 1..Len(EntryColumnsOf(entries[e])) :
                                \E name \in ColumnNamesOf(tables_in) :
                                    EntryColumnsOf(entries[e])[n] = WrittenName(name)
            /\ \A r \in 1..Len(refs) :
                    \E a, c \in TableNamesOf(tables_in) : \E b, d \in ColumnNamesOf(tables_in) :
                        refs[r] = "Ref: " \o WrittenName(a) \o "." \o WrittenName(b)
                                  \o " > " \o WrittenName(c) \o "." \o WrittenName(d)

-----------------------------------------------------------------------------
(* Properties of the failures of a conversion run, checked under           *)
(* SpecConvert                                                             *)

\* the table that the text of a file creates, None when it creates none
CreatedTable(file) ==
    IF ~startswith(file.text, "CREATE TABLE ") THEN None
    ELSE LET rest == SubSeq(file.text, 14, Len(file.text))
         IN  Some(strip_chars(SubSeq(rest, 1, find(rest, " ") - 1), BT))

\* the files that open() refuses, and the files that are parsed
RefusedFiles == {f \in 1..Len(ddl_files) : ~ddl_files[f].readable}
ParsedFiles == {f \in 1..Len(ddl_files) : ddl_files[f].readable}

\* the messages that the loop over the files appended
ParseErrors == SelectSeq(errors, LAMBDA e : Contains(e, ".sql: "))

\* C13: when parse_file raises for a file of the schema, the error is appended
\* to the error list, every other file is still parsed, and the document made
\* for the schema holds the table of every file that was parsed.
C13_ParseErrorsNotFatal ==
    (pc # "parse") =>
        /\ parsed = Len(ddl_files)
        /\ Len(ParseErrors) = Cardinality(RefusedFiles)
        /\ \A f \in RefusedFiles :
                \E e \in 1..Len(errors) : startswith(errors[e], ddl_files[f].name \o ": ")
        /\ \A f \in ParsedFiles :
                CreatedTable(ddl_files[f]) # None =>
                    /\ pc # "done"
                    /\ pc \in {"serialized", "reconciled"} =>
                            Has(DocLines, "Table " \o CreatedTable(ddl_files[f])[1] \o " {")

\* the first file of two was refused, and the table of the second one is in
\* the reconciled document
C13_Witness ==
    /\ pc = "reconciled"
    /\ Len(ddl_files) = 2
    /\ ~ddl_files[1].readable
    /\ errors = <<"t.sql: PermissionError">>
    /\ CreatedTable(ddl_files[2]) = Some("users")
    /\ Has(DocLines, "Table users {")

-----------------------------------------------------------------------------
(* Properties of the extractors on items they cannot parse, checked under  *)
(* SpecExtract                                                             *)

\* C14: an item that names a constraint (PRIMARY KEY, FOREIGN KEY, UNIQUE KEY,
\* KEY, ...) and whose column list cannot be extracted is dropped: it gives no
\* constraint record and no column record, and the other items of the table
\* are still extracted.
C14_MalformedConstraintDropped ==
    \A body \in MalformedBodies :
        (/\ pc = "extracted"
         /\ ddl_files = <<File("t.sql", TableText("t", body))>>) =>
            LET kept == SelectSeq(body, LAMBDA item : item \notin MalformedItems)
                table == IF tables_data = <<>> THEN Table("t", <<>>, <<>>) ELSE tables_data[1]
            IN  /\ table.constraints = <<>>
                /\ [k \in 1..Len(table.columns) |-> table.columns[k].name]
                      = [k \in 1..Len(kept) |-> ItemName(kept[k])]

\* the file of the table cannot be used by the reconciliation pass: the
\* directory or the file is missing, or the file cannot be opened or decoded
SourceUnusable(name) ==
    \/ ~schema_dir_exists
    \/ \A f \in 1..Len(ddl_files) :
            ddl_files[f].name = name \o ".sql" =>
                (~ddl_files[f].readable \/ decode(ddl_files[f].tail, "utf-8") = None)

\* C15: when the reconciliation of a table fails (directory missing, no file
\* of the table's name, or a file that cannot be read or decoded), the block
\* of that table is left as it was and nothing is raised out of the pass: the
\* pass returns a document, so the schema gets its output.
C15_ReconcileDegrades ==
    /\ pc # "failed"
    /\ pc = "reconciled" =>
            \A t \in 1..Len(tables_in) :
                SourceUnusable(tables_in[t].name) =>
                    BlockLines(DocLines, tables_in[t].name)
                    = BlockLines(split(dbml_before, "\n"), tables_in[t].name)

\* C16: the table map of the MySQL extractor holds no entry that comes from a
\* CREATE PROCEDURE, FUNCTION, VIEW, INDEX, TRIGGER or EVENT statement; a
\* CREATE statement without a table name gives no entry and no error; and the
\* other statements of the text are still processed.
C16_OnlyCreateTable ==
    \A other \in OtherStatements :
        /\ (pc = "extracted" /\ ddl_files = <<File("t.sql", other)>>)
                => tables_data = <<>>
        /\ (/\ pc = "extracted"
            /\ ddl_files[1].text \in {other \o "\n" \o EmailTableText,
                                      EmailTableText \o "\n" \o other})
                => /\ Len(tables_data) = 1
                   /\ tables_data[1].name = "t"
                   /\ Len(tables_data[1].columns) = 1
                   /\ tables_data[1].columns[1].name = "email"

-----------------------------------------------------------------------------
(* The column records of the extractors, serialized: checked under         *)
(* SpecExtract                                                             *)

\* what the extractor recorded on a column: a list of attribute names in the
\* records of MySQLDDLParser, one flag per attribute in those of DDLParser
Detected(table, column, attribute) ==
    IF "attributes" \in DOMAIN column
    THEN Has(column.attributes, attribute)
    ELSE CASE attribute = "not null" -> ~column.nullable
           [] attribute = "pk" -> column.primary_key
           [] attribute = "increment" -> column.auto_increment
           [] attribute = "unique" -> column.unique

\* the parenthesised size the extractor found on a column, "" if none
SizeFound(column) ==
    IF "attributes" \in DOMAIN column
    THEN IF find(column.type, "(") = 0 THEN ""
         ELSE SubSeq(column.type, find(column.type, "("), Len(column.type))
    ELSE IF column.size = None \/ column.size[1] = "" THEN ""
         ELSE "(" \o column.size[1] \o ")"

\* the column is written as a primary key: by its own record or by a
\* primary_key constraint of its table
KeyColumn(table, column) ==
    Detected(table, column, "pk") \/ InPrimaryKeyConstraint(table, column.name)

\* the line of the i-th column of the t-th extracted table carries what the
\* extractor found
CarriesDetected(t, i) ==
    LET table == tables_in[t]
        column == table.columns[i]
        line == ColumnLineOf(DocLines, t, i)
        written == AttributesOf(line)
    IN  /\ Has(written, "not null") <=> Detected(table, column, "not null")
        /\ Has(written, "increment") <=> Detected(table, column, "increment")
        /\ Has(written, "pk") <=> KeyColumn(table, column)
        /\ Has(written, "unique")
            <=> (Detected(table, column, "unique") /\ ~KeyColumn(table, column))
        /\ Contains(line, lower(SizeFound(column)))

\* C17: for every column record returned by an extractor, the serialized column
\* line carries not null, pk, increment and unique exactly when the extractor
\* detected them on the column (unique giving way to pk), and carries the size
\* the extractor found
C17_SerializerConsumesRecords ==
    Serialized =>
        \A t \in 1..Len(tables_in) :
            \A i \in 1..Len(tables_in[t].columns) : CarriesDetected(t, i)

-----------------------------------------------------------------------------
(* The extractor of a file and the dialect of its text: checked under      *)
(* SpecConvert                                                             *)

\* the dialect detector: the indicators of each dialect that occur in the
\* text, in any letter case, are counted; MySQL unless PostgreSQL has more
detect_database_type(content) ==
    LET postgresql_indicators ==
            {"CHARACTER VARYING", "TIMESTAMP WITHOUT TIME ZONE", "JSONB", "SERIAL",
             "NEXTVAL("}
        mysql_indicators == {"AUTO_INCREMENT", "TINYINT", "ENGINE=", "CHARSET="}
        hits(indicators) == Cardinality({w \in indicators : Contains(upper(content), w)})
    IN  IF hits(postgresql_indicators) > hits(mysql_indicators)
        THEN "postgresql" ELSE "mysql"

\* the extractors of each dialect
ExtractorsOf(dialect) ==
    IF dialect = "postgresql" THEN {"PostgreSQLDDLParser"} ELSE {"DDLParser", "MySQLDDLParser"}

\* C18: every file that the run has parsed was parsed by an extractor of the
\* dialect of its text: PostgreSQL text by the PostgreSQL extractor, any
\* other text by a MySQL/MariaDB extractor
C18_ExtractorOfDialect ==
    \A f \in 1..parsed :
        ddl_files[f].readable =>
            ddl_parser \in ExtractorsOf(detect_database_type(ddl_files[f].text))

-----------------------------------------------------------------------------
(* The default of a missing column: checked under SpecLiteral              *)

\* the literal after  default:  in the attribute list of a column line, None
\* when the line has no default
DefaultWritten(line) ==
    IF find(line, "default: ") = 0 THEN None
    ELSE Some(SubSeq(line, find(line, "default: ") + 9, Len(line) - 1))

\* C19: for every raw default string, the literal that the reconciliation pass
\* writes for a missing column equals the literal that the serializer writes
\* for a column of the same default
C19_SameDefaultLiteral ==
    pc = "literal_reconciled" => DefaultWritten(dbml) = DefaultWritten(column_line)

-----------------------------------------------------------------------------
(* The encodings of parse_file: checked under SpecParseFile                *)

\* the list of encodings of the parse_file of each extractor
EncodingsOf(parser) == IF parser = "DDLParser" THEN <<"utf-8", "latin-1">> ELSE encodings

\* the places in the list of the encodings that decode the bytes of the file
DecodingPlaces(file, order) == {k \in 1..Len(order) : decode(file.tail, order[k]) # None}

\* the text of the file as the first such encoding decodes it
FirstDecoded(file, order) ==
    LET first == CHOOSE k \in DecodingPlaces(file, order) :
                    \A j \in DecodingPlaces(file, order) : k <= j
    IN  file.text \o decode(file.tail, order[first])[1]

\* the mapping that the extractor makes of a text
ExtractedFrom(parser, text) ==
    IF parser = "DDLParser" THEN parse_ddl_content(text) ELSE mysql_parse_ddl_content(text)

-----------------------------------------------------------------------------
(* The target of a Ref line: checked under SpecSerializer                  *)

\* the tables of the mapping whose name equals name in lower case
TablesNamed(data, name) == {t \in 1..Len(data) : lower(data[t].name) = lower(name)}

\* the texts  table.column  that a Ref line may have as its target for the
\* pair p: the declared names of a table of that name and of its column when
\* the mapping has such a table (the given column name when the table has no
\* such column), the names as the constraint gave them when it has none
TargetTexts(data, p) ==
    LET c == data[p[1]].constraints[p[2]]
        ref_column == c.ref_columns[p[3]]
    IN  IF TablesNamed(data, c.ref_table) = {}
        THEN {c.ref_table \o "." \o ref_column}
        ELSE UNION {{data[t].name \o "." \o col :
                        col \in IF DeclaredAs(data[t], ref_column) = {}
                                THEN {ref_column} ELSE DeclaredAs(data[t], ref_column)} :
                    t \in TablesNamed(data, c.ref_table)}

\* the text after  >  of a Ref line
TargetOf(ref) == split(ref, " > ")[2]

\* C21: the target of every Ref line names the referenced table and column in
\* their declared case when the mapping holds a table equal to ref_table in
\* lower case, and as the constraint gave them when it holds none
C21_RefTargetCase ==
    Serialized =>
        LET pairs == ForeignKeyPairs(tables_in, 1, 1, 1)
            refs == RefLinesOf(DocLines)
            \* each pair as its line in lower case and the targets it may have
            expected == {<<PairLine(tables_in, pairs[n]), TargetTexts(tables_in, pairs[n])>> :
                            n \in 1..Len(pairs)}
            \* each Ref line in lower case and its target as written
            written == {<<lower(refs[r]), TargetOf(refs[r])>> : r \in 1..Len(refs)}
        IN  /\ \A e \in expected : \E w \in written : w[1] = e[1] /\ w[2] \in e[2]
            /\ \A w \in written : \E e \in expected : w[1] = e[1] /\ w[2] \in e[2]

\* a foreign key to a table of the mapping that is declared in another case,
\* and one to a table that the mapping lacks
C21_Witness ==
    /\ Serialized
    /\ Len(tables_in) = 2
    /\ \E t \in 1..2 :
            /\ tables_in[t].name = "orders"
            /\ tables_in[t].constraints =
                    <<ForeignKey(<<"USER_ID">>, "users", <<"ID">>),
                      ForeignKey(<<"id", "user_id">>, "Accounts", <<"a", "B">>)>>
    /\ \E t \in 1..2 : tables_in[t].name = "Users"
    /\ RefLinesOf(DocLines) =
            <<"Ref: orders.user_id > Users.Id", "Ref: orders.id > Accounts.a",
              "Ref: orders.user_id > Accounts.B">>

-----------------------------------------------------------------------------
(* C22: defaults of the PostgreSQL extractor                               *)

\* the default clause is a call of nextval
IsNextvalCall(default) == startswith(lower(default), "nextval(")

\* the columns that parse_ddl_content returned under the name of d
ReturnedColumns(name) ==
    {tables_data[t].columns[c] : <<t, c>> \in
        {q \in (1..Len(tables_data)) \X (1..MaxItems) :
            /\ q[2] <= Len(tables_data[q[1]].columns)
            /\ tables_data[q[1]].columns[q[2]].name = name}}

\* C22: in the PostgreSQL extractor a column whose DEFAULT clause is a call
\* of nextval is returned with the attribute increment and with no default,
\* and a column with any other DEFAULT clause is returned with that default
\* and without the attribute increment.
C22_NextvalDefault ==
    (pc = "extracted" /\ ddl_parser = "PostgreSQLDDLParser") =>
        \A d \in DefaultColumns :
            Contains(ddl_files[1].text, DefaultItem(d[1], d[2], d[3], d[4])) =>
                /\ ReturnedColumns(d[1]) # {}
                /\ \A column \in ReturnedColumns(d[1]) :
                    IF IsNextvalCall(d[3])
                    THEN Has(column.attributes, "increment") /\ column.default = None
                    ELSE ~Has(column.attributes, "increment")
                         /\ column.default = Some(d[3])

-----------------------------------------------------------------------------
(* C23: the items of a table body, checked under SpecExtract               *)

\* the text between the parentheses of the CREATE TABLE statement of TableText
BodyText(body) == "\n  " \o join(",\n  ", body) \o "\n"

\* C23: the MySQL item splitter ends an item at each comma that is outside
\* parentheses, outside a quoted literal and outside a COMMENT literal, and
\* at no other comma, and gives the items in source order: a body written as
\* items joined by commas is split into those items, and the extracted table
\* has one column per item, in their order.
C23_SplitAtTopLevelCommas ==
    \A body \in SplitBodies :
        (/\ pc = "extracted"
         /\ ddl_parser = "MySQLDDLParser"
         /\ ddl_files = <<File("t.sql", TableText("t", body))>>) =>
            /\ simple_comma_split(BodyText(body)) = body
            /\ tables_data # <<>>
            /\ [k \in 1..Len(tables_data[1].columns) |-> tables_data[1].columns[k].name]
                  = [k \in 1..Len(body) |-> ItemName(body[k])]

-----------------------------------------------------------------------------
(* C24: a column definition with an inline PRIMARY KEY, checked under      *)
(* SpecExtract                                                             *)

\* the item of ExtractColumnItems that carries PRIMARY KEY
InlinePrimaryKeyItem == Q("id") \o " int(11) NOT NULL PRIMARY KEY"

\* the record is a primary-key column, in the form of either extractor
IsPrimaryKeyColumn(column) ==
    IF "attributes" \in DOMAIN column THEN Has(column.attributes, "pk")
    ELSE Get(column, "primary_key", FALSE)

\* C24: a column definition item that carries an inline PRIMARY KEY is
\* extracted as one column record with its primary-key attribute set, and
\* gives no constraint record: a body of column definitions gives one column
\* per item and no constraint, and the column of such an item is a
\* primary-key column.
C24_InlinePrimaryKey ==
    \A body \in ColumnBodies :
        (/\ pc = "extracted"
         /\ Has(body, InlinePrimaryKeyItem)
         /\ ddl_files = <<File("t.sql", TableText("t", body))>>) =>
            /\ tables_data # <<>>
            /\ tables_data[1].constraints = <<>>
            /\ Len(tables_data[1].columns) = Len(body)
            /\ \A k \in 1..Len(body) :
                body[k] = InlinePrimaryKeyItem =>
                    /\ tables_data[1].columns[k].name = "id"
                    /\ IsPrimaryKeyColumn(tables_data[1].columns[k])

-----------------------------------------------------------------------------
(* C25: where the reconciliation pass writes, checked under SpecConvert    *)

\* the lines of a document that are not blank
NonBlank(text) == SelectSeq(split(text, "\n"), LAMBDA l : strip(l) # "")

\* the name a column line declares, and the name of the table of a header
LineName(l) == SubSeq(strip(l), 1, find(strip(l), " ") - 1)

HeaderName(l) == SubSeq(l, 7, Len(l) - 2)

\* a line of a table body that declares a column
IsColumnLine(l) ==
    /\ startswith(l, "  ") /\ ~startswith(l, "   ")
    /\ find(strip(l), " ") > 1
    /\ \A k \in 1..Len(LineName(l)) : IsWordCh(Ch(LineName(l), k))

\* where the source file of the table declares the name (0 when it does not)
SourcePlace(table_name, name) ==
    IF ~ddl_file_exists(ddl_files, table_name) THEN 0
    ELSE find(ddl_file_text(ddl_files, table_name), Q(name))

\* the line is kept: an entry of an Indexes block may change the letter case
\* of its column names
SameLine(before, after) ==
    before = after \/ (startswith(before, "    ") /\ lower(before) = lower(after))

\* the lines new from index j on are the lines old from index i on with
\* column lines put in immediately before an Indexes block or, in a table
\* without one, before the closing brace, each declared in the source file
\* of the table after the one before it
RECURSIVE OnlyColumnsAdded(_, _, _, _, _, _)
OnlyColumnsAdded(old, new, i, j, table_name, place) ==
    IF j > Len(new) THEN i > Len(old)
    ELSE IF i <= Len(old) /\ SameLine(old[i], new[j])
    THEN OnlyColumnsAdded(old, new, i + 1, j + 1,
                          IF startswith(old[i], "Table ") THEN HeaderName(old[i])
                          ELSE table_name, 0)
    ELSE /\ 1 < i /\ i <= Len(old)
         /\ old[i] = "  Indexes {" \/ (old[i] = "}" /\ old[i - 1] # "  }")
         /\ IsColumnLine(new[j])
         /\ SourcePlace(table_name, LineName(new[j])) > place
         /\ OnlyColumnsAdded(old, new, i, j + 1, table_name,
                             SourcePlace(table_name, LineName(new[j])))

\* C25: the reconciliation pass only adds column lines: each line it writes
\* for a missing column stands immediately before the Indexes block of the
\* table when the table has one and at the end of the table body otherwise,
\* the added lines follow the order of the source file, and every line of
\* the draft stays where it was (blank lines are not counted, and the entries
\* of an Indexes block are compared without regard to letter case).
C25_OnlyColumnsAdded ==
    (pc = "reconciled" /\ passes = 1) =>
        OnlyColumnsAdded(NonBlank(dbml_before), NonBlank(dbml), 1, 1, "", 0)

-----------------------------------------------------------------------------
(* C26: what the serializer writes into the mapping, checked under         *)
(* SpecSerializer                                                          *)

\* the column after is the column before with primary_key set
PrimaryKeySet(before, after) ==
    /\ DOMAIN after = DOMAIN before \cup {"primary_key"}
    /\ after.primary_key = TRUE
    /\ \A f \in DOMAIN before \ {"primary_key"} : after[f] = before[f]

\* after is the table before, changed in nothing but the primary_key of the
\* columns that a primary_key constraint of the table names
OnlyPrimaryKeySet(before, after) ==
    /\ DOMAIN after = DOMAIN before
    /\ \A f \in DOMAIN before \ {"columns"} : after[f] = before[f]
    /\ Len(after.columns) = Len(before.columns)
    /\ \A i \in 1..Len(before.columns) :
        IF InPrimaryKeyConstraint(before, before.columns[i].name)
        THEN PrimaryKeySet(before.columns[i], after.columns[i])
        ELSE after.columns[i] = before.columns[i]

\* C26: serializing a mapping changes nothing in it except that primary_key
\* becomes true on the columns named by a table-level primary_key constraint
\* of their table: no table, column or constraint is added, removed or
\* reordered; and converting the mapping a second time gives the text of
\* the first conversion.
C26_OnlyPrimaryKeyWritten ==
    (pc \in {"serialized", "serialized_again"}) =>
        /\ Len(tables_data) = Len(tables_in)
        /\ \A t \in 1..Len(tables_in) : OnlyPrimaryKeySet(tables_in[t], tables_data[t])
        /\ pc = "serialized_again" => dbml = dbml_before

C26_Witness ==
    /\ pc = "serialized_again"
    /\ dbml = dbml_before
    /\ Contains(dbml, "Indexes {")
    /\ tables_data # tables_in
    /\ \E i \in 1..Len(tables_in[1].columns) : tables_data[1].columns[i] = tables_in[1].columns[i]

-----------------------------------------------------------------------------
(* C27: a table created twice, checked under SpecConvert                   *)

\* the entries of the mapping and the header lines of the document for a name
EntriesNamed(data, name) == {t \in 1..Len(data) : data[t].name = name}

HeadersNamed(name) ==
    {h \in 1..Len(DocLines) : DocLines[h] = "Table " \o name \o " {"}

\* C27: when two CREATE TABLE statements of one run have the same cleaned
\* table name, in one file or in two files of the schema, the mapping holds
\* exactly one entry of that name, with the columns and constraints of the
\* statement processed last, and the serialized document holds exactly one
\* Table block of that name.
C27_LastStatementWins ==
    \A first \in DuplicateBodies, last \in DuplicateBodies :
        (/\ pc = "serialized"
         /\ ddl_files \in DuplicateDir(first, last)) =>
            /\ Cardinality(EntriesNamed(tables_in, "t")) = 1
            /\ \A t \in EntriesNamed(tables_in, "t") :
                    <<tables_in[t]>> = parse_ddl_content(TableText("t", last))
            /\ Cardinality(HeadersNamed("t")) = 1

C27_Witness ==
    /\ pc = "serialized"
    /\ Len(ddl_files) = 3
    /\ ddl_files \in DuplicateDir(<<Q("email") \o " varchar(100) UNIQUE">>,
                                  <<Q("id") \o " bigint(20) NOT NULL AUTO_INCREMENT",
                                    "PRIMARY KEY (" \o Q("id") \o ")">>)
    /\ Len(tables_in) = 2
    /\ tables_in[1].name = "t"
    /\ tables_in[1].columns[1].name = "id"
    /\ tables_in[2].name = "users"
    /\ Cardinality(HeadersNamed("t")) = 1

-----------------------------------------------------------------------------
(* C28: the default of a column, checked under SpecExtract                 *)

\* C28: the default stored for a column is the text of the default literal
\* of the DDL, character for character and in its letter case, without the
\* quotes around a quoted literal, so that DEFAULT 'abc' is serialized as
\* default: 'abc'.
C28_DefaultTextKept ==
    \A text \in QuotedDefaults :
        (/\ pc \in {"extracted", "serialized"}
         /\ ddl_files = <<File("t.sql", TableText("t", <<QuotedDefaultItem(text)>>))>>) =>
            LET data == IF pc = "extracted" THEN tables_data ELSE tables_in
            IN  /\ data # <<>>
                /\ Len(data[1].columns) = 1
                /\ data[1].columns[1].default = Some(text)
                /\ pc = "serialized" => Contains(dbml, "[default: '" \o text \o "']")

-----------------------------------------------------------------------------
(* C29: the column list of a constraint, checked under SpecExtract         *)

\* C29: for a PRIMARY KEY, UNIQUE, INDEX or FULLTEXT item the MySQL extractor
\* returns one constraint whose columns are the plain column references of
\* the parenthesized list, in their order and whatever their names are
\* (backquoted or not, with a prefix length or a sort order); only the
\* entries that are expressions are left out.
C29_PlainColumnsKept ==
    \A x \in IndexItems :
        (/\ pc = "extracted"
         /\ ddl_parser = "MySQLDDLParser"
         /\ ddl_files = <<File("t.sql", TableText("t", IndexBody(x[1])))>>) =>
            /\ tables_data # <<>>
            /\ Len(tables_data[1].constraints) = 1
            /\ tables_data[1].constraints[1].columns = x[2]

-----------------------------------------------------------------------------
(* C30: the type of a column that the reconciliation pass writes, checked  *)
(* under SpecConvert                                                       *)

\* the base type of a type text, and the size that follows it
BaseOf(type) == IF find(type, "(") = 0 THEN type ELSE SubSeq(type, 1, find(type, "(") - 1)

SizeOf(type) == SubSeq(type, Len(BaseOf(type)) + 1, Len(type))

\* the name that the table gives for the key
NameOfKey(key) ==
    sql_type_mapping[CHOOSE k \in 1..Len(sql_type_mapping) : sql_type_mapping[k][1] = key][2]

\* C30: a missing column whose type is a key T of the type table of the
\* reconciliation pass, with or without a size, is written with the name the
\* table gives for T followed by the size (DATETIME as datetime, TIMESTAMP as
\* timestamp, INTEGER as int), never with the name of a shorter key that
\* begins T.
C30_TypeOfItsOwnKey ==
    \A type \in KeyTypes :
        (/\ pc = "reconciled"
         /\ ddl_files = <<File("t.sql", TableText("t", KeyTypeBody(type)))>>) =>
            Has(DocLines, "  key_c " \o NameOfKey(upper(BaseOf(type))) \o SizeOf(type)
                          \o " [not null]")

=============================================================================
